---- MODULE Spec2Model ----
(***************************************************************************)
(* chat-git: checkpoints of a conversation bound to git snapshots.         *)
(* Model of packages/cli/src/ui/commands/chatGitCommand.ts: the save,      *)
(* resume, delete and list sub-commands over three stores: the checkpoint  *)
(* store (logger), the git repository and the tag ledger chatGitTags.json. *)
(***************************************************************************)
EXTENDS Integers, Sequences, FiniteSets, TLC

VARIABLES
  ledgerFile,   \* "absent" | "ok" | "malformed": the file .gemini/chatGitTags.json
  chatGitLog,   \* the parsed content of the ledger file when it is "ok"
  checkpoints,  \* checkpoint store: tag -> record, defined on the saved tags
  mtimeOrder,   \* tags of the checkpoint files, oldest modification time first
  head,         \* the commit HEAD points to
  commits,      \* the repository holds the commits 0..commits
  dirty,        \* the working tree has uncommitted modifications
  recorded,     \* history variable: tag -> the commit hash that the latest
                \* successful save of the tag reported
  saved,        \* history variable: tag -> the session history and auth type
                \* handed to the latest successful save of the tag
  last,         \* the command that has just run: its invocation, the calls it
                \* made and its result
  procs         \* the saves in flight when several processes run the tool:
                \* process -> its position and what it has read so far

vars == <<ledgerFile, chatGitLog, checkpoints, mtimeOrder, head, commits, dirty,
          saved, recorded, last, procs>>

-----------------------------------------------------------------------------
(* Bounds of the model *)

MaxCommits == 1
MaxTurns == 1
RoundTripTurns == 2

(* Program constants *)

INITIAL_HISTORY_LENGTH == 1

-----------------------------------------------------------------------------
(* Values *)

Undefined == "undefined"

AuthTypes == {"oauth-personal", "gemini-api-key"}

TextPart(t) == [text |-> t]

CallPart == [functionCall |-> "f"]

Content(r, p) == [role |-> r, parts |-> p]

ContextTurn == Content("user", <<TextPart(<<"c">>)>>)

Turns == {Content("user", <<TextPart(<<"h">>)>>)}

RoundTripTurnPool ==
  { Content("user", <<TextPart(<<"h">>)>>),
    Content("model", <<TextPart(<<"w">>), TextPart(<<"x">>)>>),
    Content("model", <<CallPart, TextPart(<<>>)>>),
    Content("function", <<TextPart(<<"r">>), CallPart>>),
    [parts |-> <<TextPart(<<"n">>)>>] }

RECURSIVE SeqsUpTo(_, _)
SeqsUpTo(S, n) ==
  IF n = 0 THEN {<<>>}
  ELSE LET shorter == SeqsUpTo(S, n - 1)
       IN  shorter \cup {Append(s, x) : s \in shorter, x \in S}

Histories == {<<ContextTurn>> \o s : s \in SeqsUpTo(Turns, MaxTurns)}

RoundTripHistories ==
  {<<ContextTurn>> \o s : s \in SeqsUpTo(RoundTripTurnPool, RoundTripTurns)}

-----------------------------------------------------------------------------
(* String helpers: a string is a sequence of characters *)

RECURSIVE TrimStart(_)
TrimStart(s) ==
  IF s # <<>> /\ Head(s) = " " THEN TrimStart(Tail(s)) ELSE s

RECURSIVE TrimEnd(_)
TrimEnd(s) ==
  IF s # <<>> /\ s[Len(s)] = " " THEN TrimEnd(SubSeq(s, 1, Len(s) - 1)) ELSE s

\* mutant: the argument is taken as typed
TrimNothing(s) == s

\* args.trim()
Trim(s) == TrimEnd(TrimStart(s))

StartsWith(s, prefix) ==
  Len(prefix) <= Len(s) /\ SubSeq(s, 1, Len(prefix)) = prefix

DecodeChar(c) == IF c = "%61" THEN "a" ELSE c

decodeTagName(tag) == [i \in 1..Len(tag) |-> DecodeChar(tag[i])]

-----------------------------------------------------------------------------
(* JavaScript array operations used on the ledger *)

RECURSIVE FindIndexFrom(_, _, _)
FindIndexFrom(log, tag, i) ==
  IF i > Len(log) THEN -1
  ELSE IF log[i].tag = tag THEN i - 1
  ELSE FindIndexFrom(log, tag, i + 1)

\* chatGitLog.findIndex(entry => entry.tag == tag): a 0-based index, or -1
FindIndex(log, tag) == FindIndexFrom(log, tag, 1)

\* !x of a number x
Not(x) == x = 0

\* arr.splice(start, 1): a negative start counts from the end of the array
Splice1(arr, start) ==
  LET n == Len(arr)
      from == IF start < 0
              THEN (IF n + start < 0 THEN 0 ELSE n + start)
              ELSE (IF start > n THEN n ELSE start)
  IN  IF from >= n THEN arr
      ELSE SubSeq(arr, 1, from) \o SubSeq(arr, from + 2, n)

\* mutant: the entry of a reused tag keeps its old hash
OverwriteReusedKeepsHash(log, tag, commitHash) == log

\* chatGitLog.find(entry => ...) of save: the first entry of the tag gets the hash
OverwriteReused(log, tag, commitHash) ==
  LET idx == FindIndex(log, tag)
  IN  IF idx = -1 THEN log
      ELSE [log EXCEPT ![idx + 1] = [commitHash |-> commitHash, tag |-> tag]]

TagReused(log, tag) == FindIndex(log, tag) # -1

\* mutant: the entry is pushed whether or not the tag is reused
UpsertAlwaysPush(log, tag, commitHash) ==
  Append(log, [commitHash |-> commitHash, tag |-> tag])

\* mutant: the entry of a reused tag is taken out and pushed at the end
UpsertMovesToEnd(log, tag, commitHash) ==
  Append(SelectSeq(log, LAMBDA e : e.tag # tag), [commitHash |-> commitHash, tag |-> tag])

\* save's update of the parsed ledger: overwrite the entry if the tag is reused, else push
Upsert(log, tag, commitHash) ==
  IF TagReused(log, tag)
  THEN OverwriteReused(log, tag, commitHash)
  ELSE Append(log, [commitHash |-> commitHash, tag |-> tag])

\* mutant: the hash of the last entry is taken, whatever its tag
LookupCommitOfLast(log, tag) == log[Len(log)].commitHash

\* resume's chatGitLog.find: the commitHash of the first entry of the tag
LookupCommit(log, tag) == log[FindIndex(log, tag) + 1].commitHash

-----------------------------------------------------------------------------
(* The stores as one record, so that a command is a function of the stores *)

Stores ==
  [ledgerFile |-> ledgerFile, chatGitLog |-> chatGitLog,
   checkpoints |-> checkpoints, mtimeOrder |-> mtimeOrder,
   head |-> head, commits |-> commits, dirty |-> dirty]

\* mutant: the read of the ledger is taken to succeed
LedgerReadableAlways(s, fault) == TRUE

\* readFileSync + JSON.parse of the ledger succeed
LedgerReadable(s, fault) == s.ledgerFile = "ok" /\ fault # "ledgerRead"

LedgerWriteFails(fault) == fault \in {"ledgerWrite", "ledgerWriteTruncated"}

\* writeFileSync(chatGitLogFile, JSON.stringify(log)); a failed write may leave a
\* truncated file behind
WriteLedger(s, log, fault) ==
  IF fault = "ledgerWrite" THEN s
  ELSE IF fault = "ledgerWriteTruncated"
  THEN [s EXCEPT !.ledgerFile = "malformed", !.chatGitLog = <<>>]
  ELSE [s EXCEPT !.ledgerFile = "ok", !.chatGitLog = log]

(* The checkpoint store (logger) *)

Without(order, tag) == SelectSeq(order, LAMBDA t : t # tag)

checkpointExists(s, tag) == tag \in DOMAIN s.checkpoints

\* JSON.stringify drops an undefined authType
CheckpointRecord(h, auth) ==
  IF auth = Undefined THEN [history |-> h]
  ELSE [history |-> h, authType |-> auth]

saveCheckpoint(s, h, auth, tag) ==
  [s EXCEPT
     !.checkpoints = [t \in DOMAIN s.checkpoints \cup {tag} |->
                        IF t = tag THEN CheckpointRecord(h, auth)
                        ELSE s.checkpoints[t]],
     !.mtimeOrder = Append(Without(s.mtimeOrder, tag), tag)]

loadCheckpoint(s, tag) ==
  IF tag \in DOMAIN s.checkpoints THEN s.checkpoints[tag] ELSE [history |-> <<>>]

StoredAuthType(checkpoint) ==
  IF "authType" \in DOMAIN checkpoint THEN checkpoint.authType ELSE Undefined

deleteCheckpoint(s, tag) ==
  [s EXCEPT
     !.checkpoints = [t \in DOMAIN s.checkpoints \ {tag} |-> s.checkpoints[t]],
     !.mtimeOrder = Without(s.mtimeOrder, tag)]

(* git *)

\* mutant: the commit leaves the tree as dirty as it was
CommitLeavesDirty(s) ==
  [s EXCEPT !.commits = s.commits + 1, !.head = s.commits + 1]

\* repo.add('./*').commit(...): a new commit, HEAD on it, the tree clean
Commit(s) ==
  [s EXCEPT !.commits = s.commits + 1, !.head = s.commits + 1, !.dirty = FALSE]

\* repo.checkout(commitHash)
Checkout(s, commitHash) == [s EXCEPT !.head = commitHash]

(* Results *)

Message(messageType, content) ==
  [type |-> "message", messageType |-> messageType, content |-> content]

Throws(from) == [type |-> "throws", from |-> from]

Outcome(s, calls, result) == [stores |-> s, calls |-> calls, result |-> result]

-----------------------------------------------------------------------------
(* saveCommand.action *)

\* what can go wrong in a call; "noInvocation": the context carries no invocation
SaveFaults ==
  {"none", "checkIsRepo", "notRepo", "noInvocation", "noChat", "status", "commit",
   "revparse", "saveCheckpoint", "ledgerRead", "ledgerWrite",
   "ledgerWriteTruncated"}

\* mutant: a failed ledger update takes the checkpoint record back
SaveLedgerRollsBack(s, calls, tag, commitHash, fault) ==
  IF s.ledgerFile = "absent"
  THEN IF LedgerWriteFails(fault)
       THEN Outcome(deleteCheckpoint(WriteLedger(s, <<>>, fault), tag),
                    calls \o <<"existsSync", "writeLedger">>,
                    Message("error", [msg |-> "SaveLedgerFailed"]))
       ELSE Outcome(WriteLedger(s, <<[commitHash |-> commitHash, tag |-> tag]>>, fault),
                    calls \o <<"existsSync", "writeLedger">>,
                    Message("info", [msg |-> "Saved", tag |-> decodeTagName(tag),
                                     commitHash |-> commitHash]))
  ELSE IF ~LedgerReadable(s, fault)
  THEN Outcome(deleteCheckpoint(s, tag), calls \o <<"existsSync", "readLedger">>,
               Message("error", [msg |-> "SaveLedgerFailed"]))
  ELSE IF LedgerWriteFails(fault)
  THEN Outcome(deleteCheckpoint(WriteLedger(s, <<>>, fault), tag),
               calls \o <<"existsSync", "readLedger", "writeLedger">>,
               Message("error", [msg |-> "SaveLedgerFailed"]))
  ELSE Outcome(WriteLedger(s, Upsert(s.chatGitLog, tag, commitHash), fault),
               calls \o <<"existsSync", "readLedger", "writeLedger">>,
               Message("info", [msg |-> "Saved", tag |-> decodeTagName(tag),
                                commitHash |-> commitHash]))

\* lines 196-223: the ledger entry of the tag is created or overwritten
SaveLedger(s, calls, tag, commitHash, fault) ==
  IF s.ledgerFile = "absent"
  THEN IF LedgerWriteFails(fault)
       THEN Outcome(WriteLedger(s, <<>>, fault),
                    calls \o <<"existsSync", "writeLedger">>,
                    Message("error", [msg |-> "SaveLedgerFailed"]))
       ELSE Outcome(WriteLedger(s, <<[commitHash |-> commitHash, tag |-> tag]>>, fault),
                    calls \o <<"existsSync", "writeLedger">>,
                    Message("info", [msg |-> "Saved", tag |-> decodeTagName(tag),
                                     commitHash |-> commitHash]))
  ELSE IF ~LedgerReadable(s, fault)
  THEN Outcome(s, calls \o <<"existsSync", "readLedger">>,
               Message("error", [msg |-> "SaveLedgerFailed"]))
  ELSE IF LedgerWriteFails(fault)
  THEN Outcome(WriteLedger(s, <<>>, fault),
               calls \o <<"existsSync", "readLedger", "writeLedger">>,
               Message("error", [msg |-> "SaveLedgerFailed"]))
  ELSE Outcome(WriteLedger(s, Upsert(s.chatGitLog, tag, commitHash), fault),
               calls \o <<"existsSync", "readLedger", "writeLedger">>,
               Message("info", [msg |-> "Saved", tag |-> decodeTagName(tag),
                                commitHash |-> commitHash]))

\* mutant: the record is written without the auth type of the session
SavePersistWithoutAuth(s, calls, tag, h, auth, fault) ==
  IF fault = "saveCheckpoint"
  THEN Outcome(s, calls \o <<"saveCheckpoint">>, Throws("saveCheckpoint"))
  ELSE SaveLedger(saveCheckpoint(s, h, Undefined, tag), calls \o <<"saveCheckpoint">>,
                  tag, s.head, fault)

\* mutant: the hash put into the ledger is the one of a commit yet to be made
SavePersistNextHash(s, calls, tag, h, auth, fault) ==
  IF fault = "saveCheckpoint"
  THEN Outcome(s, calls \o <<"saveCheckpoint">>, Throws("saveCheckpoint"))
  ELSE SaveLedger(saveCheckpoint(s, h, auth, tag), calls \o <<"saveCheckpoint">>,
                  tag, s.commits + 1, fault)

\* mutant: the ledger is written first, then the checkpoint record
SavePersistLedgerFirst(s, calls, tag, h, auth, fault) ==
  LET o == SaveLedger(s, calls, tag, s.head, fault)
  IN  IF o.result.content.msg # "Saved" THEN o
      ELSE IF fault = "saveCheckpoint"
      THEN Outcome(o.stores, o.calls \o <<"saveCheckpoint">>, Throws("saveCheckpoint"))
      ELSE Outcome(saveCheckpoint(o.stores, h, auth, tag),
                   o.calls \o <<"saveCheckpoint">>, o.result)

\* lines 194-195: the checkpoint record is written, then the ledger
SavePersist(s, calls, tag, h, auth, fault) ==
  IF fault = "saveCheckpoint"
  THEN Outcome(s, calls \o <<"saveCheckpoint">>, Throws("saveCheckpoint"))
  ELSE SaveLedger(saveCheckpoint(s, h, auth, tag), calls \o <<"saveCheckpoint">>,
                  tag, s.head, fault)

\* mutant: the tree is staged and committed whether or not it is clean
SaveSnapshotAlwaysCommits(s, calls, tag, h, auth, fault) ==
  IF fault = "status"
  THEN Outcome(s, calls \o <<"status">>, Message("error", [msg |-> "GitFailed"]))
  ELSE IF fault = "commit"
  THEN Outcome(s, calls \o <<"status", "add", "commit">>,
               Message("error", [msg |-> "GitFailed"]))
  ELSE IF fault = "revparse"
  THEN Outcome(Commit(s), calls \o <<"status", "add", "commit", "revparse">>,
               Message("error", [msg |-> "GitFailed"]))
  ELSE SavePersist(Commit(s), calls \o <<"status", "add", "commit", "revparse">>,
                   tag, h, auth, fault)

\* lines 176-192: commit the tree if it is dirty, then read HEAD
SaveSnapshot(s, calls, tag, h, auth, fault) ==
  IF fault = "status"
  THEN Outcome(s, calls \o <<"status">>, Message("error", [msg |-> "GitFailed"]))
  ELSE IF s.dirty
  THEN IF fault = "commit"
       THEN Outcome(s, calls \o <<"status", "add", "commit">>,
                    Message("error", [msg |-> "GitFailed"]))
       ELSE IF fault = "revparse"
       THEN Outcome(Commit(s), calls \o <<"status", "add", "commit", "revparse">>,
                    Message("error", [msg |-> "GitFailed"]))
       ELSE SavePersist(Commit(s), calls \o <<"status", "add", "commit", "revparse">>,
                        tag, h, auth, fault)
  ELSE IF fault = "revparse"
  THEN Outcome(s, calls \o <<"status", "revparse">>,
               Message("error", [msg |-> "GitFailed"]))
  ELSE SavePersist(s, calls \o <<"status", "revparse">>, tag, h, auth, fault)

\* mutant: a history as long as the hidden context is saved
SaveHistoryBelowThreshold(s, calls, tag, h, auth, fault) ==
  IF fault = "noChat"
  THEN Outcome(s, calls \o <<"getChat">>, Message("error", [msg |-> "NoChatClient"]))
  ELSE IF Len(h) < INITIAL_HISTORY_LENGTH
  THEN Outcome(s, calls \o <<"getChat", "getHistory">>,
               Message("info", [msg |-> "NoConversation"]))
  ELSE SaveSnapshot(s, calls \o <<"getChat", "getHistory">>, tag, h, auth, fault)

\* lines 158-174: the session's chat and its history
SaveHistory(s, calls, tag, h, auth, fault) ==
  IF fault = "noChat"
  THEN Outcome(s, calls \o <<"getChat">>, Message("error", [msg |-> "NoChatClient"]))
  ELSE IF Len(h) <= INITIAL_HISTORY_LENGTH
  THEN Outcome(s, calls \o <<"getChat", "getHistory">>,
               Message("info", [msg |-> "NoConversation"]))
  ELSE SaveSnapshot(s, calls \o <<"getChat", "getHistory">>, tag, h, auth, fault)

\* the text of the invocation: the command followed by its arguments
RawInvocation(args) == <<"/chat-git save ">> \o args

\* context.invocation?.raw || `/chat-git save ${tag}`
OriginalInvocation(args, tag, fault) ==
  [raw |-> IF fault = "noInvocation" THEN RawInvocation(tag) ELSE RawInvocation(args)]

\* mutant: the tree is committed before the overwrite is asked
ConfirmRequestSnapshots(s, calls, args, tag, fault) ==
  Outcome(IF s.dirty THEN Commit(s) ELSE s, calls,
          [type |-> "confirm_action",
           originalInvocation |-> OriginalInvocation(args, tag, fault)])

\* lines 142-156: the request to confirm the overwrite, with the invocation
ConfirmRequest(s, calls, args, tag, fault) ==
  Outcome(s, calls, [type |-> "confirm_action",
                     originalInvocation |-> OriginalInvocation(args, tag, fault)])

\* mutant: the overwrite is asked again when it has been confirmed
NeedsConfirmationAgain(s, tag, overwriteConfirmed) == checkpointExists(s, tag)

\* mutant: an existing checkpoint is overwritten without asking
NeedsConfirmationNever(s, tag, overwriteConfirmed) == FALSE

\* lines 139-141: the tag has a checkpoint and the overwrite is not confirmed
NeedsConfirmation(s, tag, overwriteConfirmed) ==
  ~overwriteConfirmed /\ checkpointExists(s, tag)

\* mutant: the length of the history is looked at before the overwrite is asked
saveCommandHistoryFirst(s, args, overwriteConfirmed, h, auth, fault) ==
  LET tag == Trim(args)
      c1 == <<"initialize", "checkIsRepo">>
      c2 == IF overwriteConfirmed THEN c1 ELSE c1 \o <<"checkpointExists">>
  IN  IF tag = <<>>
      THEN Outcome(s, <<>>, Message("error", [msg |-> "MissingTagSave"]))
      ELSE IF fault = "checkIsRepo"
      THEN Outcome(s, c1, Message("error", [msg |-> "CheckIsRepoFailed"]))
      ELSE IF fault = "notRepo"
      THEN Outcome(s, c1, Message("error", [msg |-> "NotGitRepo"]))
      ELSE IF fault # "noChat" /\ Len(h) <= INITIAL_HISTORY_LENGTH
      THEN Outcome(s, c1 \o <<"getChat", "getHistory">>,
                   Message("info", [msg |-> "NoConversation"]))
      ELSE IF NeedsConfirmation(s, tag, overwriteConfirmed)
      THEN Outcome(s, c2, [type |-> "confirm_action",
                           originalInvocation |-> OriginalInvocation(args, tag, fault)])
      ELSE SaveHistory(s, c2, tag, h, auth, fault)

\* lines 108-231
saveCommand(s, args, overwriteConfirmed, h, auth, fault) ==
  LET tag == Trim(args)
      c1 == <<"initialize", "checkIsRepo">>
      c2 == IF overwriteConfirmed THEN c1 ELSE c1 \o <<"checkpointExists">>
  IN  IF tag = <<>>
      THEN Outcome(s, <<>>, Message("error", [msg |-> "MissingTagSave"]))
      ELSE IF fault = "checkIsRepo"
      THEN Outcome(s, c1, Message("error", [msg |-> "CheckIsRepoFailed"]))
      ELSE IF fault = "notRepo"
      THEN Outcome(s, c1, Message("error", [msg |-> "NotGitRepo"]))
      ELSE IF NeedsConfirmation(s, tag, overwriteConfirmed)
      THEN ConfirmRequest(s, c2, args, tag, fault)
      ELSE SaveHistory(s, c2, tag, h, auth, fault)

-----------------------------------------------------------------------------
(* resumeCommand.action *)

ResumeFaults == {"none", "ledgerRead", "checkIsRepo", "notRepo", "status", "checkout"}

\* an optional value (an authType, a role) counts as true when it is set
Truthy(x) == x # Undefined

\* a string counts as true when it is not empty
NonEmpty(text) == text # <<>>

\* m => !!m.text
HasText(part) == "text" \in DOMAIN part /\ NonEmpty(part.text)

RECURSIVE JoinText(_)
JoinText(parts) ==
  IF parts = <<>> THEN <<>>
  ELSE (IF HasText(Head(parts)) THEN Head(parts).text ELSE <<>>)
       \o JoinText(Tail(parts))

\* item.parts?.filter((m) => !!m.text).map((m) => m.text).join('') || ''
TextOf(item) == IF "parts" \in DOMAIN item THEN JoinText(item.parts) ELSE <<>>

\* (item.role && rolemap[item.role]) || MessageType.GEMINI
rolemap(role) ==
  CASE role = "user" -> "user"
    [] role = "model" -> "gemini"
    [] OTHER -> Undefined

UiType(item) ==
  IF "role" \in DOMAIN item /\ Truthy(rolemap(item.role))
  THEN rolemap(item.role)
  ELSE "gemini"

RECURSIVE UiItems(_)
UiItems(items) ==
  IF items = <<>> THEN <<>>
  ELSE LET item == Head(items)
       IN  (IF NonEmpty(TextOf(item))
            THEN <<[type |-> UiType(item), text |-> TextOf(item)]>>
            ELSE <<>>)
           \o UiItems(Tail(items))

\* mutant: the hidden initial context is not cut off
SliceNothing(conversation, from) == conversation

\* conversation.slice(INITIAL_HISTORY_LENGTH)
Slice(conversation, from) == SubSeq(conversation, from + 1, Len(conversation))

\* lines 347-368
UiHistory(conversation) == UiItems(Slice(conversation, INITIAL_HISTORY_LENGTH))

\* mutant: any difference of the two auth types refuses, a missing one included
AuthMismatchStrict(stored, current) == stored # current

\* mutant: the auth types are never compared
AuthMismatchNever(stored, current) == FALSE

\* lines 291-295
AuthMismatch(stored, current) ==
  Truthy(stored) /\ Truthy(current) /\ stored # current

\* mutant: the commit is checked out before the tree is found dirty
ResumeCheckoutFirst(s, calls, checkpoint, commitHash, fault) ==
  IF s.dirty
  THEN Outcome(Checkout(s, commitHash), calls \o <<"checkIsRepo", "checkout", "status">>,
               Message("error", [msg |-> "NotClean"]))
  ELSE Outcome(Checkout(s, commitHash), calls \o <<"checkIsRepo", "status", "checkout">>,
               [type |-> "load_history",
                history |-> UiHistory(checkpoint.history),
                clientHistory |-> checkpoint.history])

\* mutant: a dirty tree does not stop the checkout
ResumeCheckoutDirty(s, calls, checkpoint, commitHash, fault) ==
  Outcome(Checkout(s, commitHash), calls \o <<"checkIsRepo", "status", "checkout">>,
          [type |-> "load_history",
           history |-> UiHistory(checkpoint.history),
           clientHistory |-> checkpoint.history])

\* mutant: the answer of the repository check is ignored
ResumeCheckoutAnywhere(s, calls, checkpoint, commitHash, fault) ==
  LET c1 == calls \o <<"checkIsRepo">>
  IN  IF fault = "status"
      THEN Outcome(s, c1 \o <<"status">>, Message("error", [msg |-> "StatusFailed"]))
      ELSE IF s.dirty
      THEN Outcome(s, c1 \o <<"status">>, Message("error", [msg |-> "NotClean"]))
      ELSE IF fault = "checkout"
      THEN Outcome(s, c1 \o <<"status", "checkout">>,
                   Message("error", [msg |-> "CheckoutFailed", commitHash |-> commitHash]))
      ELSE Outcome(Checkout(s, commitHash), c1 \o <<"status", "checkout">>,
                   [type |-> "load_history",
                    history |-> UiHistory(checkpoint.history),
                    clientHistory |-> checkpoint.history])

\* mutant: a failed checkout is tried again and the history is loaded
ResumeCheckoutRetries(s, calls, checkpoint, commitHash, fault) ==
  LET c1 == calls \o <<"checkIsRepo">>
  IN  IF fault = "checkIsRepo"
      THEN Outcome(s, c1, Message("error", [msg |-> "CheckIsRepoFailed"]))
      ELSE IF fault = "notRepo"
      THEN Outcome(s, c1, Message("error", [msg |-> "NotGitRepo"]))
      ELSE IF fault = "status"
      THEN Outcome(s, c1 \o <<"status">>, Message("error", [msg |-> "StatusFailed"]))
      ELSE IF s.dirty
      THEN Outcome(s, c1 \o <<"status">>, Message("error", [msg |-> "NotClean"]))
      ELSE IF fault = "checkout"
      THEN Outcome(Checkout(s, commitHash), c1 \o <<"status", "checkout", "checkout">>,
                   [type |-> "load_history",
                    history |-> UiHistory(checkpoint.history),
                    clientHistory |-> checkpoint.history])
      ELSE Outcome(Checkout(s, commitHash), c1 \o <<"status", "checkout">>,
                   [type |-> "load_history",
                    history |-> UiHistory(checkpoint.history),
                    clientHistory |-> checkpoint.history])

\* lines 303-373: the git checks, the checkout and the history to load
ResumeCheckout(s, calls, checkpoint, commitHash, fault) ==
  LET c1 == calls \o <<"checkIsRepo">>
  IN  IF fault = "checkIsRepo"
      THEN Outcome(s, c1, Message("error", [msg |-> "CheckIsRepoFailed"]))
      ELSE IF fault = "notRepo"
      THEN Outcome(s, c1, Message("error", [msg |-> "NotGitRepo"]))
      ELSE IF fault = "status"
      THEN Outcome(s, c1 \o <<"status">>, Message("error", [msg |-> "StatusFailed"]))
      ELSE IF s.dirty
      THEN Outcome(s, c1 \o <<"status">>, Message("error", [msg |-> "NotClean"]))
      ELSE IF fault = "checkout"
      THEN Outcome(s, c1 \o <<"status", "checkout">>,
                   Message("error", [msg |-> "CheckoutFailed", commitHash |-> commitHash]))
      ELSE Outcome(Checkout(s, commitHash), c1 \o <<"status", "checkout">>,
                   [type |-> "load_history",
                    history |-> UiHistory(checkpoint.history),
                    clientHistory |-> checkpoint.history])

\* mutant: a record without turns is resumed like any other
ConversationIsEmptyNever(checkpoint) == FALSE

\* conversation.length === 0
ConversationIsEmpty(checkpoint) == Len(checkpoint.history) = 0

\* mutant: a record without turns is reported as an error
NoCheckpointFoundIsError(s, calls, tag) ==
  Outcome(s, calls, Message("error", [msg |-> "NoCheckpoint",
                                      tag |-> decodeTagName(tag)]))

\* lines 256-262: the information that no checkpoint of the tag was found
NoCheckpointFound(s, calls, tag) ==
  Outcome(s, calls, Message("info", [msg |-> "NoCheckpoint",
                                     tag |-> decodeTagName(tag)]))

\* mutant: the auth types are compared after the checkout
resumeCommandGitFirst(s, args, auth, fault) ==
  LET tag == Trim(args)
      checkpoint == loadCheckpoint(s, tag)
      c1 == <<"initialize", "loadCheckpoint">>
      c2 == c1 \o <<"readLedger">>
  IN  IF tag = <<>>
      THEN Outcome(s, <<>>, Message("error", [msg |-> "MissingTagResume"]))
      ELSE IF ConversationIsEmpty(checkpoint)
      THEN NoCheckpointFound(s, c1, tag)
      ELSE IF ~LedgerReadable(s, fault)
      THEN Outcome(s, c2, Message("error", [msg |-> "ResumeLedgerFailed"]))
      ELSE IF ~TagReused(s.chatGitLog, tag)
      THEN Outcome(s, c2, Message("error", [msg |-> "NoCommit",
                                            tag |-> decodeTagName(tag)]))
      ELSE LET o == ResumeCheckout(s, c2, checkpoint,
                                   LookupCommit(s.chatGitLog, tag), fault)
           IN  IF /\ o.result.type = "load_history"
                  /\ AuthMismatch(StoredAuthType(checkpoint), auth)
               THEN Outcome(o.stores, o.calls, Message("error",
                              [msg |-> "AuthMismatch",
                               stored |-> StoredAuthType(checkpoint),
                               current |-> auth]))
               ELSE o

\* lines 241-374
resumeCommand(s, args, auth, fault) ==
  LET tag == Trim(args)
      checkpoint == loadCheckpoint(s, tag)
      c1 == <<"initialize", "loadCheckpoint">>
      c2 == c1 \o <<"readLedger">>
  IN  IF tag = <<>>
      THEN Outcome(s, <<>>, Message("error", [msg |-> "MissingTagResume"]))
      ELSE IF ConversationIsEmpty(checkpoint)
      THEN NoCheckpointFound(s, c1, tag)
      ELSE IF ~LedgerReadable(s, fault)
      THEN Outcome(s, c2, Message("error", [msg |-> "ResumeLedgerFailed"]))
      ELSE IF ~TagReused(s.chatGitLog, tag)
      THEN Outcome(s, c2, Message("error", [msg |-> "NoCommit",
                                            tag |-> decodeTagName(tag)]))
      ELSE IF AuthMismatch(StoredAuthType(checkpoint), auth)
      THEN Outcome(s, c2, Message("error",
                     [msg |-> "AuthMismatch", stored |-> StoredAuthType(checkpoint),
                      current |-> auth]))
      ELSE ResumeCheckout(s, c2, checkpoint, LookupCommit(s.chatGitLog, tag), fault)

-----------------------------------------------------------------------------
(* deleteCommand.action *)

DeleteFaults == {"none", "ledgerRead", "ledgerWrite", "ledgerWriteTruncated"}

\* mutant: the checkpoint record is deleted before the ledger is written
deleteCommandCheckpointFirst(s, args, fault) ==
  LET tag == Trim(args)
      tagIndex == FindIndex(s.chatGitLog, tag)
      written == WriteLedger(s, Splice1(s.chatGitLog, tagIndex), fault)
      c1 == <<"readLedger", "initialize", "deleteCheckpoint", "writeLedger">>
  IN  IF tag = <<>>
      THEN Outcome(s, <<>>, Message("error", [msg |-> "MissingTagDelete"]))
      ELSE IF ~LedgerReadable(s, fault)
      THEN Outcome(s, <<"readLedger">>, Message("error", [msg |-> "DeleteLedgerFailed"]))
      ELSE IF Not(tagIndex)
      THEN Outcome(s, <<"readLedger">>,
                   Message("error", [msg |-> "NotAssociated", tag |-> tag]))
      ELSE IF LedgerWriteFails(fault)
      THEN Outcome(deleteCheckpoint(written, tag), c1,
                   Message("error", [msg |-> "DeleteLedgerFailed"]))
      ELSE IF checkpointExists(written, tag)
      THEN Outcome(deleteCheckpoint(written, tag), c1,
                   Message("info", [msg |-> "Deleted", tag |-> decodeTagName(tag)]))
      ELSE Outcome(written, c1,
                   Message("error", [msg |-> "NoCheckpointToDelete",
                                     tag |-> decodeTagName(tag)]))

\* mutant: the entry is put back when no checkpoint record was deleted
deleteCommandRollsBack(s, args, fault) ==
  LET tag == Trim(args)
      tagIndex == FindIndex(s.chatGitLog, tag)
      written == WriteLedger(s, Splice1(s.chatGitLog, tagIndex), fault)
      c1 == <<"readLedger", "writeLedger">>
      c2 == c1 \o <<"initialize", "deleteCheckpoint">>
  IN  IF tag = <<>>
      THEN Outcome(s, <<>>, Message("error", [msg |-> "MissingTagDelete"]))
      ELSE IF ~LedgerReadable(s, fault)
      THEN Outcome(s, <<"readLedger">>, Message("error", [msg |-> "DeleteLedgerFailed"]))
      ELSE IF Not(tagIndex)
      THEN Outcome(s, <<"readLedger">>,
                   Message("error", [msg |-> "NotAssociated", tag |-> tag]))
      ELSE IF LedgerWriteFails(fault)
      THEN Outcome(written, c1, Message("error", [msg |-> "DeleteLedgerFailed"]))
      ELSE IF checkpointExists(written, tag)
      THEN Outcome(deleteCheckpoint(written, tag), c2,
                   Message("info", [msg |-> "Deleted", tag |-> decodeTagName(tag)]))
      ELSE Outcome(s, c2 \o <<"writeLedger">>,
                   Message("error", [msg |-> "NoCheckpointToDelete",
                                     tag |-> decodeTagName(tag)]))

\* lines 388-439
deleteCommand(s, args, fault) ==
  LET tag == Trim(args)
      tagIndex == FindIndex(s.chatGitLog, tag)
      written == WriteLedger(s, Splice1(s.chatGitLog, tagIndex), fault)
      c1 == <<"readLedger", "writeLedger">>
      c2 == c1 \o <<"initialize", "deleteCheckpoint">>
  IN  IF tag = <<>>
      THEN Outcome(s, <<>>, Message("error", [msg |-> "MissingTagDelete"]))
      ELSE IF ~LedgerReadable(s, fault)
      THEN Outcome(s, <<"readLedger">>, Message("error", [msg |-> "DeleteLedgerFailed"]))
      ELSE IF Not(tagIndex)
      THEN Outcome(s, <<"readLedger">>,
                   Message("error", [msg |-> "NotAssociated", tag |-> tag]))
      ELSE IF LedgerWriteFails(fault)
      THEN Outcome(written, c1, Message("error", [msg |-> "DeleteLedgerFailed"]))
      ELSE IF checkpointExists(written, tag)
      THEN Outcome(deleteCheckpoint(written, tag), c2,
                   Message("info", [msg |-> "Deleted", tag |-> decodeTagName(tag)]))
      ELSE Outcome(written, c2,
                   Message("error", [msg |-> "NoCheckpointToDelete",
                                     tag |-> decodeTagName(tag)]))

-----------------------------------------------------------------------------
(* getSavedChatGitTags, listCommand.action and the completions *)

ListFaults == {"none", "ledgerRead", "noTempDir", "stat"}

RECURSIVE IndexOf(_, _, _)
IndexOf(order, tag, i) ==
  IF i > Len(order) THEN 0
  ELSE IF order[i] = tag THEN i
  ELSE IndexOf(order, tag, i + 1)

\* stats.mtime of the checkpoint file of the tag
Mtime(s, tag) == IndexOf(s.mtimeOrder, tag, 1)

RECURSIVE Details(_, _)
Details(s, log) ==
  IF log = <<>> THEN <<>>
  ELSE <<[name |-> decodeTagName(Head(log).tag), mtime |-> Mtime(s, Head(log).tag)]>>
       \o Details(s, Tail(log))

RECURSIVE SortAsc(_, _)
SortAsc(details, m) ==
  IF m = 0 THEN <<>>
  ELSE SortAsc(details, m - 1) \o SelectSeq(details, LAMBDA d : d.mtime = m)

RECURSIVE SortDesc(_, _, _)
SortDesc(details, m, top) ==
  IF m > top THEN <<>>
  ELSE SortDesc(details, m + 1, top) \o SelectSeq(details, LAMBDA d : d.mtime = m)

\* mutant: the details stay in the order of the ledger
SortDetailsLedgerOrder(s, details, mtSortDesc) == details

\* chatDetails.sort(...): stable, by mtime
SortDetails(s, details, mtSortDesc) ==
  IF mtSortDesc THEN SortDesc(details, 1, Len(s.mtimeOrder))
  ELSE SortAsc(details, Len(s.mtimeOrder))

\* mutant: an entry whose checkpoint file is missing is left out of the list
getSavedChatGitTagsSkipsMissing(s, mtSortDesc, fault) ==
  IF s.ledgerFile = "absent" THEN <<>>
  ELSE IF fault = "ledgerRead" THEN <<>>
  ELSE IF s.ledgerFile = "malformed" THEN "throws"
  ELSE IF fault = "noTempDir" THEN <<>>
  ELSE IF fault = "stat" /\ s.chatGitLog # <<>> THEN <<>>
  ELSE SortDetails(s, Details(s, SelectSeq(s.chatGitLog,
                                           LAMBDA e : checkpointExists(s, e.tag))),
                   mtSortDesc)

\* lines 36-83; the value is the list, or "throws" when JSON.parse throws
getSavedChatGitTags(s, mtSortDesc, fault) ==
  IF s.ledgerFile = "absent" THEN <<>>
  ELSE IF fault = "ledgerRead" THEN <<>>
  ELSE IF s.ledgerFile = "malformed" THEN "throws"
  ELSE IF fault = "noTempDir" THEN <<>>
  ELSE IF fault = "stat" /\ s.chatGitLog # <<>> THEN <<>>
  ELSE IF \E i \in 1..Len(s.chatGitLog) : ~checkpointExists(s, s.chatGitLog[i].tag)
  THEN <<>>
  ELSE SortDetails(s, Details(s, s.chatGitLog), mtSortDesc)

ListThrows(s, fault) == s.ledgerFile = "malformed" /\ fault # "ledgerRead"

\* lines 90-99
listCommand(s, fault) ==
  IF ListThrows(s, fault)
  THEN Outcome(s, <<"existsSync", "readLedger">>, Throws("JSON.parse"))
  ELSE Outcome(s, <<"existsSync">>,
               [type |-> "chat_list", chats |-> getSavedChatGitTags(s, FALSE, fault)])

Names(details) == [i \in 1..Len(details) |-> details[i].name]

\* lines 375-380 and 440-445
completion(s, partialArg, fault) ==
  IF ListThrows(s, fault)
  THEN Outcome(s, <<"existsSync", "readLedger">>, Throws("JSON.parse"))
  ELSE Outcome(s, <<"existsSync">>,
               [type |-> "completion",
                names |-> SelectSeq(Names(getSavedChatGitTags(s, TRUE, fault)),
                                    LAMBDA name : StartsWith(name, partialArg))])

-----------------------------------------------------------------------------
(* forkGitCommand.action *)

ForkFaults == {"none", "noInvocation", "noChat", "revparse", "saveCheckpoint"}

\* context.invocation?.raw || `/fork-git ${tag}`
ForkInvocation(args, tag, fault) ==
  [raw |-> <<"/fork-git ">> \o (IF fault = "noInvocation" THEN tag ELSE args)]

\* execSync('git rev-parse HEAD').toString().trim(), or the text of the error,
\* which is no hash: -1 stands for it
ForkCommitId(s, fault) == IF fault = "revparse" THEN -1 ELSE s.head

\* forkGitCommand.action
forkGitCommand(s, args, overwriteConfirmed, h, auth, fault) ==
  LET tag == Trim(args)
      c1 == IF overwriteConfirmed THEN <<"initialize">>
            ELSE <<"initialize", "checkpointExists">>
      c2 == c1 \o <<"getChat", "getHistory">>
  IN  IF tag = <<>>
      THEN Outcome(s, <<>>, Message("error", [msg |-> "MissingTagFork"]))
      ELSE IF ~overwriteConfirmed /\ checkpointExists(s, tag)
      THEN Outcome(s, c1, [type |-> "confirm_action",
                           originalInvocation |-> ForkInvocation(args, tag, fault)])
      ELSE IF fault = "noChat"
      THEN Outcome(s, c1 \o <<"getChat">>, Message("error", [msg |-> "NoChatClient"]))
      ELSE IF Len(h) <= INITIAL_HISTORY_LENGTH
      THEN Outcome(s, c2, Message("info", [msg |-> "NoConversation"]))
      ELSE IF fault = "saveCheckpoint"
      THEN Outcome(s, c2 \o <<"revparse", "saveCheckpoint">>, Throws("saveCheckpoint"))
      ELSE Outcome(saveCheckpoint(s, h, auth, tag),
                   c2 \o <<"revparse", "saveCheckpoint">>,
                   Message("info", [msg |-> "ForkSaved", tag |-> decodeTagName(tag),
                                    commitId |-> ForkCommitId(s, fault)]))

-----------------------------------------------------------------------------
(* The state machine: one action per command, and the user's edits of the     *)
(* working tree.  The session's history and auth type are inputs of a call.  *)
(* One command runs at a time: last holds its outcome until the session has  *)
(* handled it.                                                               *)

NoCommand ==
  [op |-> "none", args |-> <<>>, overwriteConfirmed |-> FALSE, calls |-> <<>>,
   result |-> [type |-> "none"]]

Running == last.op = "none"

Apply(o) ==
  /\ ledgerFile' = o.stores.ledgerFile
  /\ chatGitLog' = o.stores.chatGitLog
  /\ checkpoints' = o.stores.checkpoints
  /\ mtimeOrder' = o.stores.mtimeOrder
  /\ head' = o.stores.head
  /\ commits' = o.stores.commits
  /\ dirty' = o.stores.dirty

Observe(invocation, o) ==
  /\ last' = [invocation EXCEPT !.calls = o.calls, !.result = o.result]
  /\ UNCHANGED procs

Saved(result) == result.type = "message" /\ result.content.msg = "Saved"

\* the history variable saved follows the saves and deletes of a tag
Track(tracked, o, tag, h, auth) ==
  /\ IF ~tracked \/ tag = <<>> THEN UNCHANGED saved
     ELSE IF Saved(o.result)
     THEN saved' = [t \in DOMAIN saved \cup {tag} |->
                      IF t = tag THEN [history |-> h, authType |-> auth] ELSE saved[t]]
     ELSE IF o.stores.checkpoints # checkpoints
     THEN saved' = [t \in DOMAIN saved \ {tag} |-> saved[t]]
     ELSE UNCHANGED saved
  /\ IF tracked /\ Saved(o.result)
     THEN recorded' = [t \in DOMAIN recorded \cup {tag} |->
                         IF t = tag THEN o.result.content.commitHash ELSE recorded[t]]
     ELSE UNCHANGED recorded

Save(args, overwriteConfirmed, h, auth, fault, tracked) ==
  /\ Running
  /\ \E o \in {saveCommand(Stores, args, overwriteConfirmed, h, auth, fault)} :
       /\ o.stores.commits <= MaxCommits
       /\ Apply(o)
       /\ Track(tracked, o, Trim(args), h, auth)
       /\ Observe([op |-> "save", args |-> args,
                   overwriteConfirmed |-> overwriteConfirmed,
                   history |-> h, authType |-> auth, calls |-> <<>>,
                   result |-> <<>>], o)

Resume(args, auth, fault) ==
  /\ Running
  /\ \E o \in {resumeCommand(Stores, args, auth, fault)} :
       /\ Apply(o)
       /\ Observe([op |-> "resume", args |-> args, overwriteConfirmed |-> FALSE,
                   authType |-> auth, calls |-> <<>>, result |-> <<>>], o)
  /\ UNCHANGED <<saved, recorded>>

Delete(args, fault, tracked) ==
  /\ Running
  /\ \E o \in {deleteCommand(Stores, args, fault)} :
       /\ Apply(o)
       /\ Track(tracked, o, Trim(args), <<>>, Undefined)
       /\ Observe([op |-> "delete", args |-> args, overwriteConfirmed |-> FALSE,
                   calls |-> <<>>, result |-> <<>>], o)

List(fault) ==
  /\ Running
  /\ \E o \in {listCommand(Stores, fault)} :
       /\ Apply(o)
       /\ Observe([op |-> "list", args |-> <<>>, overwriteConfirmed |-> FALSE,
                   calls |-> <<>>, result |-> <<>>], o)
  /\ UNCHANGED <<saved, recorded>>

Completion(partialArg, fault) ==
  /\ Running
  /\ \E o \in {completion(Stores, partialArg, fault)} :
       /\ Apply(o)
       /\ Observe([op |-> "completion", args |-> partialArg,
                   overwriteConfirmed |-> FALSE, calls |-> <<>>, result |-> <<>>], o)
  /\ UNCHANGED <<saved, recorded>>

\* the session has handled the command's result and takes the next command
Continue ==
  /\ ~Running
  /\ last' = NoCommand
  /\ UNCHANGED <<ledgerFile, chatGitLog, checkpoints, mtimeOrder, head, commits,
                 dirty, saved, recorded, procs>>

\* a file of the working tree is modified
EditTree ==
  /\ Running
  /\ ~dirty
  /\ dirty' = TRUE
  /\ UNCHANGED <<ledgerFile, chatGitLog, checkpoints, mtimeOrder, head, commits,
                 saved, recorded, last, procs>>

\* what the user types: a blank argument, a tag with blanks around it, a bare tag
Args == {<<" ">>, <<" ", "a", " ">>, <<"b">>}

RoundTripArgs == {<<" ", "a", " ">>}

PartialArgs == {<<>>, <<"a">>, <<"b">>}

SessionAuthTypes == AuthTypes \cup {Undefined}

Init ==
  /\ ledgerFile \in {"absent", "ok"}
  /\ chatGitLog = <<>>
  /\ checkpoints = <<>>
  /\ mtimeOrder = <<>>
  /\ head = 0
  /\ commits = 0
  /\ dirty = FALSE
  /\ saved = <<>>
  /\ recorded = <<>>
  /\ last = NoCommand
  /\ procs = <<>>

NextOver(A, H, AU, SF, tracked) ==
  \/ \E args \in A, oc \in BOOLEAN, h \in H, auth \in AU, fault \in SF :
       Save(args, oc, h, auth, fault, tracked)
  \/ \E args \in A, auth \in AU, fault \in ResumeFaults : Resume(args, auth, fault)
  \/ \E args \in A, fault \in DeleteFaults : Delete(args, fault, tracked)
  \/ \E fault \in ListFaults : List(fault)
  \/ \E partialArg \in PartialArgs, fault \in ListFaults : Completion(partialArg, fault)
  \/ Continue
  \/ EditTree

Next == NextOver(Args, Histories, SessionAuthTypes, SaveFaults, FALSE)

Spec == Init /\ [][Next]_vars

NextRoundTrip ==
  NextOver(RoundTripArgs, RoundTripHistories, {"oauth-personal"},
           {"none", "ledgerWrite"}, TRUE)

SpecRoundTrip == Init /\ [][NextRoundTrip]_vars

(* The checkpoint store is shared: records also come from other writers      *)
(* than the save of chat-git.                                                *)

ForeignTags == {<<"a">>, <<"b">>}

ForeignHistories == Histories \cup {<<>>}

\* another writer puts a record under the tag
ForeignCheckpoint(tag, h) ==
  /\ Running
  /\ \E s \in {saveCheckpoint(Stores, h, Undefined, tag)} :
       /\ checkpoints' = s.checkpoints
       /\ mtimeOrder' = s.mtimeOrder
  /\ UNCHANGED <<ledgerFile, chatGitLog, head, commits, dirty, saved, recorded,
                 last, procs>>

NextForeignStore ==
  \/ NextOver(Args, Histories, {Undefined}, {"none"}, FALSE)
  \/ \E tag \in ForeignTags, h \in ForeignHistories : ForeignCheckpoint(tag, h)

SpecForeignStore == Init /\ [][NextForeignStore]_vars

\* another user of the checkpoint store takes the record of the tag away
ForeignRemoval(tag) ==
  /\ Running
  /\ checkpointExists(Stores, tag)
  /\ \E s \in {deleteCheckpoint(Stores, tag)} :
       /\ checkpoints' = s.checkpoints
       /\ mtimeOrder' = s.mtimeOrder
  /\ UNCHANGED <<ledgerFile, chatGitLog, head, commits, dirty, saved, recorded,
                 last, procs>>

NextForeignRemoval ==
  \/ NextOver(Args, Histories, {Undefined}, {"none"}, FALSE)
  \/ \E tag \in ForeignTags : ForeignRemoval(tag)

SpecForeignRemoval == Init /\ [][NextForeignRemoval]_vars

(* The overwrite handshake: the caller answers a confirmation request by     *)
(* issuing the invocation it carries again, with overwriteConfirmed set.     *)

\* the last command asked for the overwrite to be confirmed
Asked == last.op = "save" /\ last.result.type = "confirm_action"

\* the arguments that follow the command in the text of an invocation
InvocationArgs(originalInvocation) == Tail(originalInvocation.raw)

LongHistories == {h \in Histories : Len(h) > INITIAL_HISTORY_LENGTH}

Reissue(h, auth) ==
  /\ Asked
  /\ \E args \in {InvocationArgs(last.result.originalInvocation)} :
     \E o \in {saveCommand(Stores, args, TRUE, h, auth, "none")} :
       /\ o.stores.commits <= MaxCommits
       /\ Apply(o)
       /\ Track(FALSE, o, Trim(args), h, auth)
       /\ Observe([op |-> "save", args |-> args, overwriteConfirmed |-> TRUE,
                   history |-> h, authType |-> auth, calls |-> <<>>,
                   result |-> <<>>], o)

Reissues == \E h \in LongHistories : Reissue(h, Undefined)

\* the next command is typed once a request has been answered
Dismiss == ~Asked /\ Continue

\* a file is modified while a commit can still be made
EditTreeBounded == commits < MaxCommits /\ EditTree

NextHandshake ==
  \/ \E args \in Args, h \in Histories, fault \in {"none", "noInvocation"} :
       Save(args, FALSE, h, Undefined, fault, FALSE)
  \/ \E args \in Args : Resume(args, Undefined, "none")
  \/ \E args \in Args : Delete(args, "none", FALSE)
  \/ Reissues
  \/ Dismiss
  \/ EditTreeBounded

SpecHandshake == Init /\ [][NextHandshake]_vars /\ WF_vars(Reissues)

(* Tags that differ from their decoded names *)

EncodedArgs == {<<"%61">>, <<"b">>}

NextEncodedTags == NextOver(EncodedArgs, Histories, {Undefined}, {"none"}, FALSE)

SpecEncodedTags == Init /\ [][NextEncodedTags]_vars

(* The commands when no call of theirs fails *)

NextFailureFree ==
  \/ \E args \in Args, oc \in BOOLEAN, h \in Histories, auth \in SessionAuthTypes :
       Save(args, oc, h, auth, "none", FALSE)
  \/ \E args \in Args, auth \in SessionAuthTypes : Resume(args, auth, "none")
  \/ \E args \in Args : Delete(args, "none", FALSE)
  \/ List("none")
  \/ \E partialArg \in PartialArgs : Completion(partialArg, "none")
  \/ Continue
  \/ EditTree

SpecFailureFree == Init /\ [][NextFailureFree]_vars

(* Two processes run save at the same time.  A save is then a sequence of    *)
(* steps, one per access to the repository, the checkpoint store and the     *)
(* ledger file (lines 176-216); a process sees the writes of the other one   *)
(* between its own steps.                                                    *)

Processes == {1, 2}

Idle ==
  [pc |-> "idle", tag |-> <<>>, history |-> <<>>, commitHash |-> 0,
   exists |-> FALSE, log |-> <<>>]

InitTwoProcesses ==
  /\ ledgerFile \in {"absent", "ok"}
  /\ chatGitLog = <<>>
  /\ checkpoints = <<>>
  /\ mtimeOrder = <<>>
  /\ head = 0
  /\ commits = 0
  /\ dirty = FALSE
  /\ saved = <<>>
  /\ recorded = <<>>
  /\ last = NoCommand
  /\ procs = [p \in Processes |-> Idle]

\* the stores of the step are those of the record
SetStores(s) ==
  /\ ledgerFile' = s.ledgerFile
  /\ chatGitLog' = s.chatGitLog
  /\ checkpoints' = s.checkpoints
  /\ mtimeOrder' = s.mtimeOrder
  /\ head' = s.head
  /\ commits' = s.commits
  /\ dirty' = s.dirty

\* the process goes on from pc to next, its other fields as in the record
Goes(p, pc, next, fields) ==
  /\ procs[p].pc = pc
  /\ procs' = [procs EXCEPT ![p] = [fields EXCEPT !.pc = next]]
  /\ UNCHANGED <<saved, recorded, last>>

\* lines 108-174: a save of a tag and a history that pass the first checks
StartSave(p, args, h) ==
  /\ Trim(args) # <<>>
  /\ Len(h) > INITIAL_HISTORY_LENGTH
  /\ Goes(p, "idle", "snapshot", [procs[p] EXCEPT !.tag = Trim(args), !.history = h])
  /\ SetStores(Stores)

\* lines 178-185: status, add and commit if the tree is dirty, rev-parse of HEAD
SnapshotStep(p) ==
  \E s \in {IF dirty THEN Commit(Stores) ELSE Stores} :
    /\ s.commits <= MaxCommits
    /\ Goes(p, "snapshot", "persist", [procs[p] EXCEPT !.commitHash = s.head])
    /\ SetStores(s)

\* line 195
PersistStep(p) ==
  /\ Goes(p, "persist", "exists", procs[p])
  /\ SetStores(saveCheckpoint(Stores, procs[p].history, Undefined, procs[p].tag))

\* line 203: existsSync(chatGitLogFile)
ExistsStep(p) ==
  /\ Goes(p, "exists", IF ledgerFile = "absent" THEN "create" ELSE "read",
          [procs[p] EXCEPT !.exists = (ledgerFile # "absent")])
  /\ SetStores(Stores)

\* lines 204-205: the file is written with the entry alone
CreateStep(p) ==
  /\ Goes(p, "create", "done", procs[p])
  /\ SetStores(WriteLedger(Stores,
                 <<[commitHash |-> procs[p].commitHash, tag |-> procs[p].tag]>>,
                 "none"))

\* line 207: the ledger is read and parsed
ReadStep(p) ==
  /\ Goes(p, "read", "write", [procs[p] EXCEPT !.log = chatGitLog])
  /\ SetStores(Stores)

\* mutant: the entry is put into the ledger as it is on disk at the write
LedgerToWriteMerged(read, current, tag, commitHash) == Upsert(current, tag, commitHash)

\* lines 209-215: what is written is the ledger as it was read, with the entry
LedgerToWrite(read, current, tag, commitHash) == Upsert(read, tag, commitHash)

\* line 215
WriteStep(p) ==
  /\ Goes(p, "write", "done", procs[p])
  /\ SetStores(WriteLedger(Stores,
                 LedgerToWrite(procs[p].log, chatGitLog, procs[p].tag,
                               procs[p].commitHash),
                 "none"))

\* lines 224-230: the save has returned; the process may save again
FinishSave(p) ==
  /\ Goes(p, "done", "idle", Idle)
  /\ SetStores(Stores)

NextTwoProcesses ==
  \/ \E p \in Processes, args \in Args, h \in Histories : StartSave(p, args, h)
  \/ \E p \in Processes : SnapshotStep(p)
  \/ \E p \in Processes : PersistStep(p)
  \/ \E p \in Processes : ExistsStep(p)
  \/ \E p \in Processes : CreateStep(p)
  \/ \E p \in Processes : ReadStep(p)
  \/ \E p \in Processes : WriteStep(p)
  \/ \E p \in Processes : FinishSave(p)
  \/ EditTree

SpecTwoProcesses == InitTwoProcesses /\ [][NextTwoProcesses]_vars

(* fork-git next to the commands of chat-git *)

ForkGit(args, overwriteConfirmed, h, auth, fault) ==
  /\ Running
  /\ \E o \in {forkGitCommand(Stores, args, overwriteConfirmed, h, auth, fault)} :
       /\ Apply(o)
       /\ Observe([op |-> "fork-git", args |-> args,
                   overwriteConfirmed |-> overwriteConfirmed,
                   history |-> h, authType |-> auth, calls |-> <<>>,
                   result |-> <<>>], o)
  /\ UNCHANGED <<saved, recorded>>

NextForkGit ==
  \/ \E args \in Args, oc \in BOOLEAN, h \in Histories, auth \in SessionAuthTypes,
        fault \in ForkFaults : ForkGit(args, oc, h, auth, fault)
  \/ NextOver(Args, Histories, {Undefined}, {"none"}, FALSE)

SpecForkGit == Init /\ [][NextForkGit]_vars

(* The commands with the history variables kept *)

NextTracked == NextOver(Args, Histories, {Undefined}, SaveFaults, TRUE)

SpecTracked == Init /\ [][NextTracked]_vars

-----------------------------------------------------------------------------
(* Vocabulary of the properties *)

Count(calls, name) == Len(SelectSeq(calls, LAMBDA c : c = name))

Called(calls, name) == Count(calls, name) > 0

HasEntry(log, tag) == \E i \in 1..Len(log) : log[i].tag = tag

RemoveTag(log, tag) == SelectSeq(log, LAMBDA e : e.tag # tag)

IsMessage(result, msg) == result.type = "message" /\ result.content.msg = msg

\* the step is a run of the named command
Ran(op) == Running /\ last'.op = op

TagOfLast == Trim(last.args)

-----------------------------------------------------------------------------
(* C1: in every reachable state the ledger holds at most one entry per tag. *)
C1_OneEntryPerTag ==
  \A i, j \in 1..Len(chatGitLog) :
    chatGitLog[i].tag = chatGitLog[j].tag => i = j

\* a tag was saved again while another tag followed it in the ledger
C1_Witness ==
  /\ last.op = "save" /\ Saved(last.result) /\ TagOfLast = <<"a">>
  /\ chatGitLog = <<[commitHash |-> 1, tag |-> <<"a">>],
                    [commitHash |-> 0, tag |-> <<"b">>]>>

\* the tag and the auth type the command of the step runs with
TagOfNext == Trim(last'.args)

AuthOfNext == last'.authType

(* C2: a failure-free Delete(T) of a tag that has a ledger entry, at any     *)
(* position, leaves the ledger without T's entry and the other entries in    *)
(* their order, invokes deleteCheckpoint once, and returns 'has been         *)
(* deleted' when the checkpoint existed.                                     *)
C2_DeleteRemovesEntry ==
  [][(/\ Ran("delete")
      /\ ledgerFile = "ok"
      /\ HasEntry(chatGitLog, TagOfNext)
      /\ Delete(last'.args, "none", FALSE))
     => /\ chatGitLog' = RemoveTag(chatGitLog, TagOfNext)
        /\ Count(last'.calls, "deleteCheckpoint") = 1
        /\ (TagOfNext \in DOMAIN checkpoints => IsMessage(last'.result, "Deleted"))]_vars

(* C3: a failure-free Delete(T) on a readable ledger without an entry for T  *)
(* returns the 'Tag not associated with git snapshot' error and never        *)
(* invokes deleteCheckpoint.                                                 *)
C3_DeleteUnknownTag ==
  [][(/\ Ran("delete")
      /\ TagOfNext # <<>>
      /\ ledgerFile = "ok"
      /\ ~HasEntry(chatGitLog, TagOfNext)
      /\ Delete(last'.args, "none", FALSE))
     => /\ IsMessage(last'.result, "NotAssociated")
        /\ ~Called(last'.calls, "deleteCheckpoint")]_vars

(* C4: a failure-free Delete(T) keeps every ledger entry of another tag,     *)
(* with its commitHash, whether or not T has an entry.                       *)
C4_DeleteKeepsOthers ==
  [][(Ran("delete") /\ Delete(last'.args, "none", FALSE))
     => \A i \in 1..Len(chatGitLog) :
          chatGitLog[i].tag # TagOfNext
          => \E j \in 1..Len(chatGitLog') : chatGitLog'[j] = chatGitLog[i]]_vars

(* C5 as stated: Resume(T) with a non-blank tag on a dirty tree returns      *)
(* 'Git repo is not clean, unable to checkout.' whether or not T has a       *)
(* checkpoint record and whether or not T has a ledger entry.                *)
C5_DirtyAlwaysRefused ==
  [][(/\ Ran("resume")
      /\ TagOfNext # <<>>
      /\ dirty
      /\ Resume(last'.args, AuthOfNext, "none"))
     => IsMessage(last'.result, "NotClean")]_vars

\* the checks of resume that come before the git checks all pass
ResumeReachesGit(tag, auth) ==
  /\ tag # <<>>
  /\ tag \in DOMAIN checkpoints
  /\ Len(checkpoints[tag].history) > 0
  /\ ledgerFile = "ok"
  /\ HasEntry(chatGitLog, tag)
  /\ ~(StoredAuthType(checkpoints[tag]) # Undefined /\ auth # Undefined
         /\ StoredAuthType(checkpoints[tag]) # auth)

(* C5, amended: Resume(T) on a dirty tree returns 'Git repo is not clean,    *)
(* unable to checkout.' when T's checkpoint record has a non-empty history,  *)
(* the ledger is readable and has an entry for T, the auth types are         *)
(* compatible and the repository and status checks succeed.                  *)
C5_DirtyRefusedAfterEarlierChecks ==
  [][(/\ Ran("resume")
      /\ dirty
      /\ ResumeReachesGit(TagOfNext, AuthOfNext)
      /\ \E fault \in {"none", "checkout"} : Resume(last'.args, AuthOfNext, fault))
     => /\ IsMessage(last'.result, "NotClean")
        /\ head' = head]_vars

C5_Witness ==
  last.op = "resume" /\ IsMessage(last.result, "NotClean") /\ dirty

(* C6: Resume invokes checkout only on a clean tree and after the status     *)
(* check of the same call; a Resume that does not reach checkout leaves HEAD,*)
(* the commits and the working tree as they were.                            *)
C6_NoCheckoutWhileDirty ==
  [][Ran("resume")
       => /\ Called(last'.calls, "checkout")
               => /\ ~dirty
                  /\ \E i, j \in 1..Len(last'.calls) :
                       /\ i < j
                       /\ last'.calls[i] = "status"
                       /\ last'.calls[j] = "checkout"
          /\ ~Called(last'.calls, "checkout")
               => /\ head' = head
                  /\ commits' = commits
                  /\ dirty' = dirty]_vars

\* a resume has moved HEAD to the recorded commit
C6_Witness ==
  /\ last.op = "resume" /\ last.result.type = "load_history"
  /\ Called(last.calls, "checkout") /\ head = 0 /\ commits = 1

\* T's record has a history, a ledger entry and an auth type other than auth
StoredAuthDiffers(tag, auth) ==
  /\ tag \in DOMAIN checkpoints
  /\ Len(checkpoints[tag].history) > 0
  /\ ledgerFile = "ok"
  /\ HasEntry(chatGitLog, tag)
  /\ StoredAuthType(checkpoints[tag]) # Undefined
  /\ StoredAuthType(checkpoints[tag]) # auth

(* C7 as stated: Resume(T) of a record with a non-empty history and a ledger *)
(* entry, whose stored auth type differs from the active one, returns the    *)
(* mismatch error and checks nothing out, an absent active auth type         *)
(* included.                                                                 *)
C7_MismatchAlwaysRefused ==
  [][(/\ Ran("resume")
      /\ StoredAuthDiffers(TagOfNext, AuthOfNext)
      /\ \E fault \in ResumeFaults \ {"ledgerRead"} :
           Resume(last'.args, AuthOfNext, fault))
     => /\ IsMessage(last'.result, "AuthMismatch")
        /\ ~Called(last'.calls, "checkout")]_vars

(* C7, amended: the same when the active auth type is set; the error names   *)
(* the stored and the active auth type, and HEAD stays where it was.         *)
C7_MismatchRefused ==
  [][(/\ Ran("resume")
      /\ AuthOfNext # Undefined
      /\ StoredAuthDiffers(TagOfNext, AuthOfNext)
      /\ \E fault \in ResumeFaults \ {"ledgerRead"} :
           Resume(last'.args, AuthOfNext, fault))
     => /\ IsMessage(last'.result, "AuthMismatch")
        /\ last'.result.content.stored = StoredAuthType(checkpoints[TagOfNext])
        /\ last'.result.content.current = AuthOfNext
        /\ ~Called(last'.calls, "checkout")
        /\ head' = head]_vars

C7_Witness ==
  /\ last.op = "resume" /\ IsMessage(last.result, "AuthMismatch")
  /\ last.result.content.stored = "gemini-api-key"
  /\ last.result.content.current = "oauth-personal"

(* C8: Resume(T) of a record without a stored auth type checks out the       *)
(* recorded commit and returns a load-history result for every active auth   *)
(* type, when the ledger entry exists, the directory is a repository, the    *)
(* tree is clean and the checkout does not fail.                             *)
C8_LegacyResumes ==
  [][(/\ Ran("resume")
      /\ TagOfNext \in DOMAIN checkpoints
      /\ Len(checkpoints[TagOfNext].history) > 0
      /\ "authType" \notin DOMAIN checkpoints[TagOfNext]
      /\ ledgerFile = "ok"
      /\ HasEntry(chatGitLog, TagOfNext)
      /\ ~dirty
      /\ Resume(last'.args, AuthOfNext, "none"))
     => /\ last'.result.type = "load_history"
        /\ Called(last'.calls, "checkout")
        /\ \E i \in 1..Len(chatGitLog) :
             /\ chatGitLog[i].tag = TagOfNext
             /\ head' = chatGitLog[i].commitHash]_vars

C8_Witness ==
  /\ last.op = "resume" /\ last.result.type = "load_history"
  /\ last.authType = "oauth-personal"
  /\ TagOfLast \in DOMAIN checkpoints
  /\ "authType" \notin DOMAIN checkpoints[TagOfLast]

RECURSIVE TextUpTo(_, _)
TextUpTo(parts, n) ==
  IF n = 0 THEN <<>>
  ELSE TextUpTo(parts, n - 1)
       \o (IF "text" \in DOMAIN parts[n] THEN parts[n].text ELSE <<>>)

\* the claim's display form of a turn: its role mapped, its text fragments joined
DisplayTurn(turn) ==
  [type |-> IF "role" \in DOMAIN turn /\ turn.role = "user" THEN "user" ELSE "gemini",
   text |-> IF "parts" \in DOMAIN turn THEN TextUpTo(turn.parts, Len(turn.parts))
            ELSE <<>>]

\* the turns after the threshold prefix, in order, without the turns of empty text
ExpectedDisplay(H) ==
  SelectSeq([i \in 1..(Len(H) - INITIAL_HISTORY_LENGTH) |->
               DisplayTurn(H[i + INITIAL_HISTORY_LENGTH])],
            LAMBDA d : d.text # <<>>)

(* C9: round trip: a successful Resume(T) that follows a successful Save(T)  *)
(* of a history H returns H as the raw history, and as the display history   *)
(* H's turns after the threshold prefix, in order, each role mapped and the  *)
(* turns of empty text dropped; H is longer than the threshold.              *)
C9_RoundTrip ==
  (/\ last.op = "resume"
   /\ last.result.type = "load_history"
   /\ TagOfLast \in DOMAIN saved)
  => /\ Len(saved[TagOfLast].history) > INITIAL_HISTORY_LENGTH
     /\ last.result.clientHistory = saved[TagOfLast].history
     /\ last.result.history = ExpectedDisplay(saved[TagOfLast].history)

\* a resumed history of three turns of which one shows, two fragments joined
C9_Witness ==
  /\ last.op = "resume"
  /\ last.result.type = "load_history"
  /\ TagOfLast \in DOMAIN saved
  /\ Len(last.result.clientHistory) = 3
  /\ last.result.history = <<[type |-> "gemini", text |-> <<"w", "x">>]>>

(* C10: a successful Save(T) of a tag that has a ledger entry keeps the      *)
(* ledger's length and every entry's position and replaces only T's          *)
(* commitHash, by the HEAD hash read in the call; a successful Save(T) of a  *)
(* tag without an entry adds one entry: the saves of a tag grow the ledger   *)
(* by one entry in total.                                                    *)
C10_IdempotentResave ==
  [][(Ran("save") /\ Saved(last'.result))
     => /\ ledgerFile' = "ok"
        /\ last'.result.content.commitHash = head'
        /\ IF ledgerFile = "ok" /\ HasEntry(chatGitLog, TagOfNext)
           THEN /\ Len(chatGitLog') = Len(chatGitLog)
                /\ \A i \in 1..Len(chatGitLog) :
                     chatGitLog'[i] =
                       IF chatGitLog[i].tag = TagOfNext
                       THEN [commitHash |-> head', tag |-> TagOfNext]
                       ELSE chatGitLog[i]
           ELSE /\ Len(chatGitLog') = Len(chatGitLog) + 1
                /\ Len(SelectSeq(chatGitLog', LAMBDA e : e.tag = TagOfNext)) = 1]_vars

\* the second save of a tag has replaced its hash and kept its first position
C10_Witness ==
  /\ last.op = "save" /\ Saved(last.result) /\ TagOfLast = <<"b">>
  /\ chatGitLog = <<[commitHash |-> 1, tag |-> <<"b">>],
                    [commitHash |-> 0, tag |-> <<"a">>]>>

\* the save of the step, run again with a chosen condition of its calls
SaveWith(fault) ==
  Save(last'.args, last'.overwriteConfirmed, last'.history, last'.authType,
       fault, FALSE)

(* C11: a Save that reaches the snapshot step with a clean tree stages and   *)
(* commits nothing: the commits, HEAD and the tree are as before the call;   *)
(* when no call fails and the ledger file is not malformed it succeeds, and  *)
(* a successful one leaves the current HEAD hash in the tag's ledger entry.  *)
C11_CleanTreeNoCommit ==
  [][(Ran("save") /\ ~dirty /\ Called(last'.calls, "status"))
     => /\ ~Called(last'.calls, "add")
        /\ ~Called(last'.calls, "commit")
        /\ commits' = commits
        /\ head' = head
        /\ dirty' = dirty
        /\ (SaveWith("none") /\ ledgerFile # "malformed") => Saved(last'.result)
        /\ Saved(last'.result)
             => /\ ledgerFile' = "ok"
                /\ \E i \in 1..Len(chatGitLog') :
                     chatGitLog'[i] = [commitHash |-> head, tag |-> TagOfNext]]_vars

\* a save on a clean tree has recorded the commit an earlier save made
C11_Witness ==
  /\ last.op = "save" /\ Saved(last.result)
  /\ ~Called(last.calls, "commit")
  /\ commits = 1 /\ head = 1
  /\ \E i \in 1..Len(chatGitLog) :
       chatGitLog[i] = [commitHash |-> 1, tag |-> TagOfLast]

\* the step leaves the three stores as they were
StoresUnchanged ==
  UNCHANGED <<ledgerFile, chatGitLog, checkpoints, mtimeOrder, head, commits, dirty>>

\* the command of the step has called none of the mutating operations
NoMutatingCall ==
  \A name \in {"add", "commit", "checkout", "saveCheckpoint", "deleteCheckpoint",
                "writeLedger"} : ~Called(last'.calls, name)

(* C12: Save(T) without overwriteConfirmed, in a repository, of a tag that   *)
(* has a checkpoint record returns a confirmation request that carries the   *)
(* invocation (the one of the context, or '/chat-git save T' when the        *)
(* context has none) and changes nothing: no commit, no checkpoint write,    *)
(* no ledger write.                                                          *)
C12_OverwriteAsksFirst ==
  [][(/\ Ran("save")
      /\ TagOfNext # <<>>
      /\ ~last'.overwriteConfirmed
      /\ TagOfNext \in DOMAIN checkpoints
      /\ \E fault \in SaveFaults \ {"checkIsRepo", "notRepo"} : SaveWith(fault))
     => /\ last'.result.type = "confirm_action"
        /\ last'.result.originalInvocation.raw
             \in {RawInvocation(last'.args), RawInvocation(TagOfNext)}
        /\ SaveWith("none")
             => last'.result.originalInvocation.raw = RawInvocation(last'.args)
        /\ StoresUnchanged
        /\ NoMutatingCall]_vars

\* the confirmation request for a tag typed with blanks around it
C12_Witness ==
  /\ last.op = "save"
  /\ last.result.type = "confirm_action"
  /\ ~last.overwriteConfirmed
  /\ last.result.originalInvocation.raw = RawInvocation(<<" ", "a", " ">>)
  /\ TagOfLast \in DOMAIN checkpoints

(* C13: a Save whose session history is not longer than the hidden-context   *)
(* threshold has no side effect: no commit, no checkpoint record written,    *)
(* the ledger unchanged; when the call gets as far as the history (a tag is  *)
(* given, the directory is a repository, no confirmation is due and the chat *)
(* client is there) it returns the informational 'No conversation found to   *)
(* save.'                                                                    *)
C13_ShortHistoryNotSaved ==
  [][(Ran("save") /\ Len(last'.history) <= INITIAL_HISTORY_LENGTH)
     => /\ StoresUnchanged
        /\ NoMutatingCall
        /\ (/\ TagOfNext # <<>>
            /\ last'.overwriteConfirmed \/ TagOfNext \notin DOMAIN checkpoints
            /\ \E fault \in SaveFaults \ {"checkIsRepo", "notRepo", "noChat"} :
                 SaveWith(fault))
           => /\ IsMessage(last'.result, "NoConversation")
              /\ last'.result.messageType = "info"]_vars

\* a dirty tree is left uncommitted by the save of a history of the context alone
C13_Witness ==
  /\ last.op = "save"
  /\ IsMessage(last.result, "NoConversation")
  /\ Len(last.history) = INITIAL_HISTORY_LENGTH
  /\ dirty

\* a Save of a history within the threshold writes no record and no ledger entry
ShortHistoryWritesNothing ==
  (Ran("save") /\ Len(last'.history) <= INITIAL_HISTORY_LENGTH)
  => /\ checkpoints' = checkpoints
     /\ ledgerFile' = ledgerFile
     /\ chatGitLog' = chatGitLog

\* the step is a resume that checks a commit out or returns a history to load
Resumes ==
  /\ Ran("resume")
  /\ Called(last'.calls, "checkout") \/ last'.result.type = "load_history"

(* C14 as stated: no Save writes a record or a ledger entry for a history    *)
(* within the threshold, and no Resume checks out or returns a load-history  *)
(* result for a record whose history is within the threshold, whoever wrote  *)
(* the record.                                                               *)
C14_ShortNeverResumed ==
  [][/\ ShortHistoryWritesNothing
     /\ Resumes => /\ TagOfNext \in DOMAIN checkpoints
                   /\ Len(checkpoints[TagOfNext].history)
                        > INITIAL_HISTORY_LENGTH]_vars

(* C14, amended: no Save writes a record or a ledger entry for a history     *)
(* within the threshold, so every record a Save writes is longer than the    *)
(* threshold; a Resume checks out or returns a load-history result only for  *)
(* a record whose history is not empty: a record of another writer with 1 up *)
(* to threshold turns is resumed.                                            *)
C14_EmptyNeverResumed ==
  [][/\ ShortHistoryWritesNothing
     /\ (Ran("save") /\ checkpoints' # checkpoints)
          => Len(checkpoints'[TagOfNext].history) > INITIAL_HISTORY_LENGTH
     /\ Resumes => /\ TagOfNext \in DOMAIN checkpoints
                   /\ Len(checkpoints[TagOfNext].history) > 0]_vars

\* the record of another writer, as long as the hidden context, has been resumed
C14_Witness ==
  /\ last.op = "resume"
  /\ last.result.type = "load_history"
  /\ Called(last.calls, "checkout")
  /\ Len(last.result.clientHistory) = INITIAL_HISTORY_LENGTH
  /\ last.result.history = <<>>

\* the argument is empty or made of blanks
Blank(args) == \A i \in 1..Len(args) : args[i] = " "

UsageError(op) ==
  CASE op = "save" -> "MissingTagSave"
    [] op = "resume" -> "MissingTagResume"
    [] op = "delete" -> "MissingTagDelete"

(* C15: Save, Resume and Delete of an empty or blank tag return their usage  *)
(* error at once: no call of the checkpoint store (initialize included), no  *)
(* git command, no read or write of the ledger, and the stores unchanged.    *)
C15_BlankTagNoIO ==
  [][\A op \in {"save", "resume", "delete"} :
       (Ran(op) /\ Blank(last'.args))
       => /\ IsMessage(last'.result, UsageError(op))
          /\ last'.result.messageType = "error"
          /\ last'.calls = <<>>
          /\ StoresUnchanged]_vars

\* a blank save on a dirty tree with a saved tag
C15_Witness ==
  /\ last.op = "save"
  /\ last.args = <<" ">>
  /\ IsMessage(last.result, "MissingTagSave")
  /\ last.calls = <<>>
  /\ dirty
  /\ chatGitLog # <<>>

\* the resume of the step, run again with a chosen condition of its calls
ResumeWith(fault) == Resume(last'.args, AuthOfNext, fault)

\* the command of the step stopped with the error and changed nothing
AbortsWith(msg) ==
  /\ IsMessage(last'.result, msg)
  /\ last'.result.messageType = "error"
  /\ StoresUnchanged
  /\ NoMutatingCall

(* C16: in Save and in Resume, a repository check that answers 'not a        *)
(* repository' aborts the call with the 'is not git repo' error, and one     *)
(* that fails aborts it with the other error, 'is not git repo or            *)
(* checkIsRepo failed'; nothing is mutated: no commit, no checkout, no       *)
(* checkpoint write, no ledger write.                                        *)
C16_RepoCheckAborts ==
  [][/\ (Ran("save") /\ Called(last'.calls, "checkIsRepo"))
          => /\ SaveWith("notRepo") => AbortsWith("NotGitRepo")
             /\ SaveWith("checkIsRepo") => AbortsWith("CheckIsRepoFailed")
     /\ (Ran("resume") /\ Called(last'.calls, "checkIsRepo"))
          => /\ ResumeWith("notRepo") => AbortsWith("NotGitRepo")
             /\ ResumeWith("checkIsRepo") => AbortsWith("CheckIsRepoFailed")]_vars

\* a resume that had passed the checkpoint, ledger and auth checks found no repository
C16_Witness ==
  /\ last.op = "resume"
  /\ IsMessage(last.result, "NotGitRepo")
  /\ Called(last.calls, "checkIsRepo")
  /\ HasEntry(chatGitLog, TagOfLast)

\* the enumeration of the step meets a failure: a ledger file that is present
\* but malformed, a read that fails, or a modification time that cannot be read
EnumerationFails(Enumerate(_)) ==
  \/ ledgerFile = "malformed"
  \/ \E fault \in ListFaults \ {"none"} : Enumerate(fault)
  \/ /\ ledgerFile = "ok"
     /\ \E i \in 1..Len(chatGitLog) : chatGitLog[i].tag \notin DOMAIN checkpoints

ListWith(fault) == List(fault)

CompletionWith(fault) == Completion(last'.args, fault)

(* C17: List and Completion never propagate an error; when the enumeration   *)
(* fails (the ledger file unreadable, or present but malformed, or the       *)
(* modification time of an entry's checkpoint not to be had) they yield an   *)
(* empty result.                                                             *)
C17_EnumerationNeverThrows ==
  [][/\ Ran("list")
          => /\ last'.result.type = "chat_list"
             /\ EnumerationFails(ListWith) => last'.result.chats = <<>>
     /\ Ran("completion")
          => /\ last'.result.type = "completion"
             /\ EnumerationFails(CompletionWith) => last'.result.names = <<>>]_vars

\* the ledger is read and the modification time of every entry's checkpoint is had
EnumerationSucceeds(Enumerate(_)) ==
  /\ ledgerFile = "ok"
  /\ \A i \in 1..Len(chatGitLog) : chatGitLog[i].tag \in DOMAIN checkpoints
  /\ Enumerate("none")

\* the orders in which the entries of the ledger can be listed
Orders == Permutations(1..Len(chatGitLog))

DetailOf(entry) ==
  [name |-> decodeTagName(entry.tag), mtime |-> Mtime(Stores, entry.tag)]

IsPrefix(prefix, name) ==
  Len(prefix) <= Len(name) /\ \A i \in 1..Len(prefix) : name[i] = prefix[i]

(* C18: when the enumeration succeeds, List returns one Chat Detail per      *)
(* ledger entry, the decoded tag with the checkpoint's modification time,    *)
(* oldest first; Completion returns the decoded tags, newest first, of       *)
(* exactly the entries whose decoded tag starts with the partial argument.   *)
C18_ListAndCompletionOrder ==
  [][/\ (Ran("list") /\ EnumerationSucceeds(ListWith))
          => /\ last'.result.type = "chat_list"
             /\ \E f \in Orders :
                  /\ last'.result.chats =
                       [i \in 1..Len(chatGitLog) |-> DetailOf(chatGitLog[f[i]])]
                  /\ \A i, j \in 1..Len(chatGitLog) :
                       i < j => DetailOf(chatGitLog[f[i]]).mtime
                                  <= DetailOf(chatGitLog[f[j]]).mtime
     /\ (Ran("completion") /\ EnumerationSucceeds(CompletionWith))
          => /\ last'.result.type = "completion"
             /\ \E f \in Orders :
                  /\ \A i, j \in 1..Len(chatGitLog) :
                       i < j => DetailOf(chatGitLog[f[i]]).mtime
                                  >= DetailOf(chatGitLog[f[j]]).mtime
                  /\ last'.result.names =
                       SelectSeq([i \in 1..Len(chatGitLog) |->
                                    DetailOf(chatGitLog[f[i]]).name],
                                 LAMBDA name : IsPrefix(last'.args, name))]_vars

\* the completion of "a" over the tags %61 and b, the older one saved again
C18_Witness ==
  /\ last.op = "completion"
  /\ last.args = <<"a">>
  /\ last.result.type = "completion"
  /\ last.result.names = << <<"a">> >>
  /\ chatGitLog = <<[commitHash |-> 0, tag |-> <<"%61">>],
                    [commitHash |-> 0, tag |-> <<"b">>]>>
  /\ mtimeOrder = << <<"b">>, <<"%61">> >>

LedgerTags == {chatGitLog[i].tag : i \in 1..Len(chatGitLog)}

(* C19: in every state reached from empty stores by Save, Resume, Delete and *)
(* List calls of which none fails, one command at a time, the tags that have *)
(* a ledger entry are the tags that have a checkpoint record.                *)
C19_LedgerMatchesStore == LedgerTags = DOMAIN checkpoints

\* the commit of the step, if the tree was dirty, is there after the step
CommitRemains ==
  IF dirty
  THEN commits' = commits + 1 /\ head' = commits + 1 /\ ~dirty'
  ELSE commits' = commits /\ head' = head /\ ~dirty'

\* the checkpoint record written in the step is there after the step
RecordRemains ==
  /\ TagOfNext \in DOMAIN checkpoints'
  /\ checkpoints'[TagOfNext] = CheckpointRecord(last'.history, last'.authType)
  /\ mtimeOrder'[Len(mtimeOrder')] = TagOfNext

(* C20: a failure in the snapshot, checkpoint or ledger step of Save ends    *)
(* the call and undoes nothing: a commit made before a failing revparse or   *)
(* saveCheckpoint remains, and when the read or the write of the ledger      *)
(* fails Save returns the 'Reading or writing to ... failed' error while the *)
(* commit made in the call and the checkpoint record written in it remain.   *)
C20_NoRollback ==
  [][Ran("save")
     => /\ commits' >= commits
        /\ (Called(last'.calls, "saveCheckpoint") /\ ~Saved(last'.result)
              /\ \E fault \in {"ledgerRead", "ledgerWrite", "ledgerWriteTruncated"} :
                   SaveWith(fault))
             => /\ IsMessage(last'.result, "SaveLedgerFailed")
                /\ last'.result.messageType = "error"
                /\ CommitRemains
                /\ RecordRemains
        /\ (Called(last'.calls, "saveCheckpoint") /\ SaveWith("saveCheckpoint"))
             => /\ last'.result.type = "throws"
                /\ CommitRemains
        /\ (Called(last'.calls, "revparse") /\ SaveWith("revparse"))
             => /\ IsMessage(last'.result, "GitFailed")
                /\ CommitRemains
                /\ checkpoints' = checkpoints]_vars

\* the ledger write failed after the commit and the checkpoint record were made
C20_Witness ==
  /\ last.op = "save"
  /\ IsMessage(last.result, "SaveLedgerFailed")
  /\ Called(last.calls, "commit")
  /\ Called(last.calls, "writeLedger")
  /\ commits = 1 /\ head = 1
  /\ TagOfLast \in DOMAIN checkpoints
  /\ ~HasEntry(chatGitLog, TagOfLast)

(* C21: every failure in the snapshot, checkpoint and ledger steps of Save   *)
(* (status, add, commit, rev-parse, saveCheckpoint, ledger read or write)    *)
(* comes back as a returned error message; none leaves the call as an        *)
(* exception.                                                                *)
C21_SaveFailuresReturned ==
  [][(Ran("save") /\ Called(last'.calls, "status"))
     => /\ last'.result.type = "message"
        /\ ~Saved(last'.result) => last'.result.messageType = "error"]_vars

\* the step is the ledger write of the process
Writes(p) == procs[p].pc = "write" /\ procs'[p].pc = "done"

\* the step is the creation of the ledger file by the process
Creates(p) == procs[p].pc = "create" /\ procs'[p].pc = "done"

(* C22: no lock guards the read-modify-write of the ledger.  When a process  *)
(* writes the ledger, an entry that another process has written for another  *)
(* tag since this process read the ledger is lost, although the checkpoint   *)
(* record of that tag is there; a process that found no ledger file writes a *)
(* ledger of its entry alone over whatever has been written since.           *)
C22_LostUpdate ==
  [][\A p \in Processes :
       /\ Writes(p)
            => \A i \in 1..Len(chatGitLog) :
                 (/\ chatGitLog[i].tag # procs[p].tag
                  /\ ~HasEntry(procs[p].log, chatGitLog[i].tag))
                 => /\ ~HasEntry(chatGitLog', chatGitLog[i].tag)
                    /\ HasEntry(chatGitLog', procs[p].tag)
                    /\ chatGitLog[i].tag \in DOMAIN checkpoints'
       /\ Creates(p)
            => chatGitLog' = <<[commitHash |-> procs[p].commitHash,
                                tag |-> procs[p].tag]>>]_vars

\* both saves are through, both records are there, the ledger has one entry:
\* each process had read the ledger before the other one wrote it
C22_Witness ==
  /\ procs[1].pc = "done" /\ procs[2].pc = "done"
  /\ procs[1].tag # procs[2].tag
  /\ procs[1].exists /\ procs[2].exists
  /\ procs[1].log = <<>> /\ procs[2].log = <<>>
  /\ {procs[1].tag, procs[2].tag} \subseteq DOMAIN checkpoints
  /\ ledgerFile = "ok"
  /\ Len(chatGitLog) = 1
  /\ HasEntry(chatGitLog, procs[2].tag)

(* C23: an absent ledger file is an empty ledger to every operation: List    *)
(* returns an empty list, a successful Save leaves a ledger of the new entry *)
(* alone, Resume of a tag whose record has a history returns 'No git commit  *)
(* associated with tag', and Delete returns 'Tag not associated with git     *)
(* snapshot'.                                                                *)
C23_AbsentLedgerIsEmpty ==
  [][ledgerFile = "absent"
     => /\ (Ran("list") /\ ListWith("none")) => last'.result.chats = <<>>
        /\ (Ran("save") /\ Saved(last'.result))
             => /\ ledgerFile' = "ok"
                /\ chatGitLog' = <<[commitHash |-> head', tag |-> TagOfNext]>>
        /\ (/\ Ran("resume")
            /\ TagOfNext \in DOMAIN checkpoints
            /\ Len(checkpoints[TagOfNext].history) > 0
            /\ ResumeWith("none"))
             => IsMessage(last'.result, "NoCommit")
        /\ (Ran("delete") /\ TagOfNext # <<>> /\ Delete(last'.args, "none", FALSE))
             => IsMessage(last'.result, "NotAssociated")]_vars

(* C24: after a successful Save(T) the ledger entry of T holds HEAD as it is *)
(* after the commit step of the call, the new commit when the tree was       *)
(* dirty and the HEAD of before when it was clean, and the checkpoint record *)
(* of T is the session's history with the active auth type.                  *)
C24_SavedHashAndRecord ==
  [][(Ran("save") /\ Saved(last'.result))
     => /\ head' = IF dirty THEN commits + 1 ELSE head
        /\ commits' = IF dirty THEN commits + 1 ELSE commits
        /\ HasEntry(chatGitLog', TagOfNext)
        /\ \A i \in 1..Len(chatGitLog') :
             chatGitLog'[i].tag = TagOfNext => chatGitLog'[i].commitHash = head'
        /\ TagOfNext \in DOMAIN checkpoints'
        /\ checkpoints'[TagOfNext].history = last'.history
        /\ StoredAuthType(checkpoints'[TagOfNext]) = last'.authType]_vars

\* a save on a dirty tree under an API key has recorded the commit it made
C24_Witness ==
  /\ last.op = "save" /\ Saved(last.result)
  /\ Called(last.calls, "commit")
  /\ last.authType = "gemini-api-key"
  /\ head = 1
  /\ \E i \in 1..Len(chatGitLog) :
       chatGitLog[i] = [commitHash |-> 1, tag |-> TagOfLast]
  /\ checkpoints[TagOfLast] =
       [history |-> last.history, authType |-> "gemini-api-key"]

(* C25: the upsert of a successful Save(T) changes the entry of T alone: the *)
(* entries of the other tags keep their hashes and their order, a tag that   *)
(* had no entry gets the last place, a tag that had one keeps its place.     *)
C25_UpsertFrame ==
  [][(Ran("save") /\ Saved(last'.result))
     => /\ RemoveTag(chatGitLog', TagOfNext) = RemoveTag(chatGitLog, TagOfNext)
        /\ IF HasEntry(chatGitLog, TagOfNext)
           THEN /\ Len(chatGitLog') = Len(chatGitLog)
                /\ \A i \in 1..Len(chatGitLog) :
                     (chatGitLog'[i].tag = TagOfNext) <=> (chatGitLog[i].tag = TagOfNext)
           ELSE /\ Len(chatGitLog') = Len(chatGitLog) + 1
                /\ chatGitLog'[Len(chatGitLog')].tag = TagOfNext]_vars

\* a second tag has been appended behind the first, whose hash is the old one
C25_Witness ==
  /\ last.op = "save" /\ Saved(last.result) /\ TagOfLast = <<"b">>
  /\ chatGitLog = <<[commitHash |-> 0, tag |-> <<"a">>],
                    [commitHash |-> 1, tag |-> <<"b">>]>>

(* C26: a successful Resume(T) leaves HEAD on the hash that the latest       *)
(* successful Save(T) recorded, whatever saves and deletes of other tags     *)
(* came in between, and changes neither the ledger nor a checkpoint record.  *)
C26_ResumeChecksOutRecorded ==
  [][(Ran("resume") /\ last'.result.type = "load_history")
     => /\ TagOfNext \in DOMAIN recorded
        /\ head' = recorded[TagOfNext]
        /\ ledgerFile' = ledgerFile
        /\ chatGitLog' = chatGitLog
        /\ checkpoints' = checkpoints
        /\ mtimeOrder' = mtimeOrder]_vars

\* the first tag is resumed after a second tag was saved on a newer commit
C26_Witness ==
  /\ last.op = "resume"
  /\ last.result.type = "load_history"
  /\ TagOfLast = <<"a">>
  /\ recorded = (<<"a">> :> 0) @@ (<<"b">> :> 1)
  /\ chatGitLog = <<[commitHash |-> 0, tag |-> <<"a">>],
                    [commitHash |-> 1, tag |-> <<"b">>]>>
  /\ head = 0

\* the tag of the step has a checkpoint record with at least one turn
HasTurns(tag) ==
  /\ tag # <<>>
  /\ tag \in DOMAIN checkpoints
  /\ Len(checkpoints[tag].history) > 0

\* the command of the step has run no git command and HEAD stays where it was
NoGitCommand ==
  /\ \A name \in {"checkIsRepo", "status", "add", "commit", "checkout"} :
       ~Called(last'.calls, name)
  /\ UNCHANGED <<head, commits, dirty>>

(* C27: Resume(T) of a tag whose checkpoint record has turns returns the     *)
(* 'No git commit associated with tag' error when the ledger is read and has *)
(* no entry for T, and the read error when the read of the ledger fails or   *)
(* the file is malformed; in both cases no git command runs and HEAD stays.  *)
C27_NoEntryOrUnreadable ==
  [][(Ran("resume") /\ HasTurns(TagOfNext))
     => /\ (ledgerFile = "ok" /\ ~HasEntry(chatGitLog, TagOfNext)
              /\ ~ResumeWith("ledgerRead"))
            => /\ IsMessage(last'.result, "NoCommit")
               /\ last'.result.messageType = "error"
               /\ NoGitCommand
        /\ (ledgerFile = "malformed" \/ ResumeWith("ledgerRead"))
            => /\ IsMessage(last'.result, "ResumeLedgerFailed")
               /\ last'.result.messageType = "error"
               /\ NoGitCommand]_vars

\* a tag with a record and no entry is resumed while another tag has an entry
C27_Witness ==
  /\ last.op = "resume"
  /\ IsMessage(last.result, "NoCommit")
  /\ TagOfLast \in DOMAIN checkpoints
  /\ ledgerFile = "ok"
  /\ chatGitLog # <<>>
  /\ ~HasEntry(chatGitLog, TagOfLast)

\* the record that resume loads for the tag of the step has no turn
LoadsNoTurns(tag) ==
  tag \notin DOMAIN checkpoints \/ Len(checkpoints[tag].history) = 0

(* C28: Resume(T) of a tag whose loaded checkpoint record has an empty       *)
(* history returns the information 'No saved checkpoint found', not an       *)
(* error, without reading the ledger and without any git command or          *)
(* checkout, also when the ledger holds an entry for T.                      *)
C28_EmptyHistoryNotFound ==
  [][(Ran("resume") /\ TagOfNext # <<>> /\ LoadsNoTurns(TagOfNext))
     => /\ IsMessage(last'.result, "NoCheckpoint")
        /\ last'.result.messageType = "info"
        /\ ~Called(last'.calls, "readLedger")
        /\ NoGitCommand
        /\ StoresUnchanged]_vars

\* a record without turns is resumed while the ledger has an entry of its tag
C28_Witness ==
  /\ last.op = "resume"
  /\ IsMessage(last.result, "NoCheckpoint")
  /\ TagOfLast \in DOMAIN checkpoints
  /\ checkpoints[TagOfLast].history = <<>>
  /\ ledgerFile = "ok"
  /\ HasEntry(chatGitLog, TagOfLast)

(* C29: when the checkout of Resume(T) fails, Resume returns an error that   *)
(* carries the commit hash of T's ledger entry and no load-history result,   *)
(* the ledger and the checkpoint store stay as they were, and the checkout   *)
(* has been called once.                                                     *)
C29_CheckoutFailure ==
  [][(Ran("resume") /\ Called(last'.calls, "checkout") /\ ResumeWith("checkout"))
     => /\ IsMessage(last'.result, "CheckoutFailed")
        /\ last'.result.messageType = "error"
        /\ \E i \in 1..Len(chatGitLog) :
             chatGitLog[i] = [commitHash |-> last'.result.content.commitHash,
                              tag |-> TagOfNext]
        /\ last'.result.type # "load_history"
        /\ UNCHANGED <<ledgerFile, chatGitLog, checkpoints, mtimeOrder>>
        /\ Count(last'.calls, "checkout") = 1]_vars

\* the checkout of an older commit than HEAD has failed
C29_Witness ==
  /\ last.op = "resume"
  /\ IsMessage(last.result, "CheckoutFailed")
  /\ last.result.content.commitHash = 0
  /\ head = 1

\* the checks of resume in their order, and the one the result of the step
\* comes from; 9 stands for the load of the history
CheckOf(result) ==
  IF result.type = "load_history" THEN 9
  ELSE CASE result.content.msg = "MissingTagResume" -> 1
         [] result.content.msg = "NoCheckpoint" -> 2
         [] result.content.msg = "ResumeLedgerFailed" -> 3
         [] result.content.msg = "NoCommit" -> 4
         [] result.content.msg = "AuthMismatch" -> 5
         [] result.content.msg \in {"CheckIsRepoFailed", "NotGitRepo"} -> 6
         [] result.content.msg \in {"StatusFailed", "NotClean"} -> 7
         [] result.content.msg = "CheckoutFailed" -> 8

\* the first check that the stores and the session make fail
FirstFailingOfState(tag, auth) ==
  IF tag = <<>> THEN 1
  ELSE IF LoadsNoTurns(tag) THEN 2
  ELSE IF ledgerFile # "ok" THEN 3
  ELSE IF ~HasEntry(chatGitLog, tag) THEN 4
  ELSE IF /\ StoredAuthType(checkpoints[tag]) # Undefined
          /\ auth # Undefined
          /\ StoredAuthType(checkpoints[tag]) # auth THEN 5
  ELSE IF dirty THEN 7
  ELSE 9

\* the check that a failing call makes fail
FailingOfCall(fault) ==
  CASE fault = "ledgerRead" -> 3
    [] fault \in {"checkIsRepo", "notRepo"} -> 6
    [] fault = "status" -> 7
    [] fault = "checkout" -> 8
    [] OTHER -> 9

Min(a, b) == IF a < b THEN a ELSE b

\* the calls of a resume that stops at the check, in their order
CallsUpTo(check) ==
  SubSeq(<<"initialize", "loadCheckpoint", "readLedger", "checkIsRepo", "status",
           "checkout">>,
         1, CASE check = 1 -> 0
              [] check = 2 -> 2
              [] check \in {3, 4, 5} -> 3
              [] check = 6 -> 4
              [] check = 7 -> 5
              [] OTHER -> 6)

(* C30: Resume makes its checks in the order blank tag, empty checkpoint     *)
(* history, ledger read, ledger entry, auth types, repository, clean tree,   *)
(* checkout: its result is the one of the first check that fails and its     *)
(* calls are the ones up to that check; an auth mismatch is returned before  *)
(* any git command runs.                                                     *)
C30_ResumeCheckOrder ==
  [][Ran("resume")
     => /\ \A fault \in ResumeFaults :
             ResumeWith(fault)
             => CheckOf(last'.result)
                  = Min(FirstFailingOfState(TagOfNext, AuthOfNext), FailingOfCall(fault))
        /\ last'.calls = CallsUpTo(CheckOf(last'.result))
        /\ IsMessage(last'.result, "AuthMismatch") => NoGitCommand]_vars

\* the auth types differ while the tree is dirty: the mismatch is what is returned
C30_Witness ==
  /\ last.op = "resume"
  /\ IsMessage(last.result, "AuthMismatch")
  /\ dirty
  /\ last.calls = <<"initialize", "loadCheckpoint", "readLedger">>

\* the steps of save in their order, and the one the result of the step comes
\* from; 8 stands for the success
StepOf(result) ==
  IF result.type = "confirm_action" THEN 3
  ELSE IF result.type = "throws" THEN 6
  ELSE CASE result.content.msg = "MissingTagSave" -> 1
         [] result.content.msg \in {"CheckIsRepoFailed", "NotGitRepo"} -> 2
         [] result.content.msg \in {"NoChatClient", "NoConversation"} -> 4
         [] result.content.msg = "GitFailed" -> 5
         [] result.content.msg = "SaveLedgerFailed" -> 7
         [] result.content.msg = "Saved" -> 8

\* the first step that the stores and the session make stop
FirstStoppingOfState(tag, overwriteConfirmed, h) ==
  IF tag = <<>> THEN 1
  ELSE IF ~overwriteConfirmed /\ tag \in DOMAIN checkpoints THEN 3
  ELSE IF Len(h) <= INITIAL_HISTORY_LENGTH THEN 4
  ELSE IF ledgerFile = "malformed" THEN 7
  ELSE 8

\* the step that a failing call makes stop
StoppingOfCall(fault) ==
  CASE fault \in {"checkIsRepo", "notRepo"} -> 2
    [] fault = "noChat" -> 4
    [] fault \in {"status", "revparse"} -> 5
    [] fault = "commit" -> IF dirty THEN 5 ELSE 8
    [] fault = "saveCheckpoint" -> 6
    [] fault = "ledgerRead" -> IF ledgerFile = "absent" THEN 8 ELSE 7
    [] fault \in {"ledgerWrite", "ledgerWriteTruncated"} -> 7
    [] OTHER -> 8

\* the calls of save in their order, each with the step it belongs to
SaveCallOrder ==
  <<"initialize", "checkIsRepo", "checkpointExists", "getChat", "getHistory",
    "status", "add", "commit", "revparse", "saveCheckpoint", "existsSync",
    "readLedger", "writeLedger">>

SaveCallStep == <<2, 2, 3, 4, 4, 5, 5, 5, 5, 6, 7, 7, 7>>

RankOf(name) == CHOOSE i \in 1..Len(SaveCallOrder) : SaveCallOrder[i] = name

\* the calls were made in the order of the steps, none of a later step than the
\* one that stopped
InStepOrder(calls, step) ==
  /\ \A i \in 1..Len(calls) :
       /\ calls[i] \in {SaveCallOrder[k] : k \in 1..Len(SaveCallOrder)}
       /\ SaveCallStep[RankOf(calls[i])] <= step
  /\ \A i, j \in 1..Len(calls) : i < j => RankOf(calls[i]) < RankOf(calls[j])

(* C31: Save makes its steps in the order blank tag, repository, overwrite   *)
(* confirmation, history length, snapshot (status, commit when dirty, HEAD), *)
(* checkpoint persist, ledger upsert: its result is the one of the first     *)
(* step that stops, its calls follow that order, and the checkpoint record   *)
(* is written before the ledger; an unconfirmed Save of a tag that has a     *)
(* checkpoint returns the confirmation request also when the history is too  *)
(* short to save.                                                            *)
C31_SaveStepOrder ==
  [][Ran("save")
     => /\ \A fault \in SaveFaults :
             SaveWith(fault)
             => StepOf(last'.result)
                  = Min(FirstStoppingOfState(TagOfNext, last'.overwriteConfirmed,
                                             last'.history),
                        StoppingOfCall(fault))
        /\ InStepOrder(last'.calls, StepOf(last'.result))
        /\ Called(last'.calls, "writeLedger") => Called(last'.calls, "saveCheckpoint")
        /\ (/\ ~last'.overwriteConfirmed
            /\ TagOfNext \in DOMAIN checkpoints
            /\ Called(last'.calls, "checkpointExists"))
           => last'.result.type = "confirm_action"]_vars

\* the overwrite is asked for a history that is too short to save
C31_Witness ==
  /\ last.op = "save"
  /\ last.result.type = "confirm_action"
  /\ Len(last.history) <= INITIAL_HISTORY_LENGTH
  /\ TagOfLast \in DOMAIN checkpoints

\* the delete of the step, run again with a chosen condition of its calls
DeleteWith(fault) == Delete(last'.args, fault, FALSE)

\* in the calls of the step the first call comes before the second
CalledBefore(first, second) ==
  \E i, j \in 1..Len(last'.calls) :
    i < j /\ last'.calls[i] = first /\ last'.calls[j] = second

\* the read of the ledger by the delete of the step fails
DeleteReadFails == ledgerFile # "ok" \/ DeleteWith("ledgerRead")

\* the delete of the step writes the ledger and the write fails
DeleteWriteFails ==
  /\ Called(last'.calls, "writeLedger")
  /\ DeleteWith("ledgerWrite") \/ DeleteWith("ledgerWriteTruncated")

(* C32: Delete(T) calls deleteCheckpoint(T) only after it has written,       *)
(* without failure, a ledger that has no entry of T; when the read or the    *)
(* write of the ledger fails it returns the 'Reading or writing to ...       *)
(* failed' error, deleteCheckpoint is not called and the checkpoint store    *)
(* stays as it was.                                                          *)
C32_LedgerBeforeCheckpoint ==
  [][(Ran("delete") /\ TagOfNext # <<>>)
     => /\ Called(last'.calls, "deleteCheckpoint")
            => /\ CalledBefore("writeLedger", "deleteCheckpoint")
               /\ ledgerFile' = "ok"
               /\ ~HasEntry(chatGitLog', TagOfNext)
               /\ ~DeleteWriteFails
        /\ (DeleteReadFails \/ DeleteWriteFails)
            => /\ IsMessage(last'.result, "DeleteLedgerFailed")
               /\ last'.result.messageType = "error"
               /\ ~Called(last'.calls, "deleteCheckpoint")
               /\ UNCHANGED <<checkpoints, mtimeOrder>>]_vars

\* the write of the ledger has failed in the delete of a tag that keeps its record
C32_Witness ==
  /\ last.op = "delete"
  /\ IsMessage(last.result, "DeleteLedgerFailed")
  /\ Called(last.calls, "writeLedger")
  /\ TagOfLast \in DOMAIN checkpoints

(* C33: when Delete(T) has written the ledger without T's entry and the      *)
(* checkpoint store has no record of T to delete, Delete returns the 'No     *)
(* checkpoint found with tag' error and the entry stays removed: the ledger  *)
(* is not written a second time.                                             *)
C33_NoCheckpointAfterLedger ==
  [][(/\ Ran("delete")
      /\ HasEntry(chatGitLog, TagOfNext)
      /\ TagOfNext \notin DOMAIN checkpoints
      /\ Called(last'.calls, "writeLedger")
      /\ ~DeleteWriteFails)
     => /\ IsMessage(last'.result, "NoCheckpointToDelete")
        /\ last'.result.messageType = "error"
        /\ Called(last'.calls, "deleteCheckpoint")
        /\ ledgerFile' = "ok"
        /\ ~HasEntry(chatGitLog', TagOfNext)
        /\ Count(last'.calls, "writeLedger") = 1
        /\ UNCHANGED <<checkpoints, mtimeOrder>>]_vars

\* the second of two entries was removed and its tag had no record any more
C33_Witness ==
  /\ last.op = "delete"
  /\ IsMessage(last.result, "NoCheckpointToDelete")
  /\ TagOfLast = <<"b">>
  /\ ledgerFile = "ok"
  /\ Len(chatGitLog) = 1
  /\ chatGitLog[1].tag = <<"a">>

(* C34: a confirmed Save does not ask the checkpoint store whether the tag   *)
(* exists, and it depends on the stores alone: the Save that returns the     *)
(* confirmation request changes no store, so the confirmed Save of any       *)
(* history, session and failing call gives after it the result and the       *)
(* stores that it would have given without it.                               *)
C34_ConfirmedSaveIsFresh ==
  [][Ran("save")
     => /\ last'.overwriteConfirmed => ~Called(last'.calls, "checkpointExists")
        /\ last'.result.type = "confirm_action"
            => /\ StoresUnchanged
               /\ \A h \in Histories, auth \in SessionAuthTypes, fault \in SaveFaults :
                    saveCommand(Stores', last'.args, TRUE, h, auth, fault)
                      = saveCommand(Stores, last'.args, TRUE, h, auth, fault)]_vars

\* the overwrite has been asked on a dirty tree, which a confirmed Save commits
C34_Witness ==
  /\ last.op = "save"
  /\ last.result.type = "confirm_action"
  /\ ~last.overwriteConfirmed
  /\ dirty
  /\ HasEntry(chatGitLog, TagOfLast)

\* the confirmed save has succeeded: the record of its tag is the history of
\* the session and the entry of its tag is HEAD
HandshakeDone ==
  /\ last.op = "save"
  /\ last.overwriteConfirmed
  /\ Saved(last.result)
  /\ TagOfLast \in DOMAIN checkpoints
  /\ checkpoints[TagOfLast].history = last.history
  /\ ledgerFile = "ok"
  /\ \E i \in 1..Len(chatGitLog) :
       chatGitLog[i] = [commitHash |-> head, tag |-> TagOfLast]

(* C35: after Save(T) has returned the confirmation request, the Save(T)     *)
(* issued again with overwriteConfirmed set, in a repository, with a history *)
(* longer than the threshold and with no failing call, eventually returns    *)
(* the success result, and then the checkpoint record of T is the history of *)
(* the session and the ledger entry of T is the hash of HEAD.                *)
C35_HandshakeCompletes == Asked ~> HandshakeDone

\* the confirmed save has committed a dirty tree and overwritten the entry
C35_Witness ==
  /\ HandshakeDone
  /\ Called(last.calls, "commit")
  /\ head = 1

\* the save of the step, made again at once on the stores it leaves, confirmed,
\* with the same history and session and with no failing call
SavedAgain ==
  saveCommand(Stores', last'.args, TRUE, last'.history, last'.authType, "none")

(* C36: a successful Save(T) made again with the same history, confirmed,    *)
(* with no change of the working tree in between, succeeds without a commit  *)
(* and leaves the ledger, the checkpoint record of T and the repository as   *)
(* the first call left them.                                                 *)
C36_SaveIsIdempotent ==
  [][(Ran("save") /\ Saved(last'.result))
     => /\ Saved(SavedAgain.result)
        /\ SavedAgain.result = last'.result
        /\ ~Called(SavedAgain.calls, "add")
        /\ ~Called(SavedAgain.calls, "commit")
        /\ SavedAgain.stores.ledgerFile = ledgerFile'
        /\ SavedAgain.stores.chatGitLog = chatGitLog'
        /\ SavedAgain.stores.checkpoints = checkpoints'
        /\ SavedAgain.stores.head = head'
        /\ SavedAgain.stores.commits = commits']_vars

\* a confirmed save of the history that the record already holds, on the commit
\* that an earlier save made, has succeeded without a commit
C36_Witness ==
  /\ last.op = "save"
  /\ last.overwriteConfirmed
  /\ Saved(last.result)
  /\ ~Called(last.calls, "commit")
  /\ head = 1
  /\ chatGitLog = <<[commitHash |-> 1, tag |-> TagOfLast]>>

\* the hashes of the commits of the repository
CommitHashes == 0..commits

\* every entry of the ledger names a commit of the repository
EntriesNameCommits ==
  \A i \in 1..Len(chatGitLog) : chatGitLog[i].commitHash \in CommitHashes

(* C37: in every state reached by the commands the commitHash of every       *)
(* ledger entry is the hash of a commit of the repository, and Resume and    *)
(* Delete neither create nor remove a commit.                                *)
C37_EntriesNameCommits ==
  /\ []EntriesNameCommits
  /\ [][(Ran("resume") \/ Ran("delete"))
        => /\ commits' = commits
           /\ ~Called(last'.calls, "commit")]_vars

\* a resume has gone back to the older of two recorded commits
C37_Witness ==
  /\ last.op = "resume"
  /\ last.result.type = "load_history"
  /\ commits = 1
  /\ head = 0
  /\ Len(chatGitLog) = 2
  /\ {chatGitLog[1].commitHash, chatGitLog[2].commitHash} = {0, 1}

(* C38: in every state reached from empty stores by the commands, one at a   *)
(* time, whichever git, ledger or checkpoint-store step fails, every tag     *)
(* that has a ledger entry has a checkpoint record.                          *)
C38_EntryHasRecord ==
  \A i \in 1..Len(chatGitLog) : chatGitLog[i].tag \in DOMAIN checkpoints

\* a save has written its record and failed on the ledger, which has entries
C38_Witness ==
  /\ last.op = "save"
  /\ IsMessage(last.result, "SaveLedgerFailed")
  /\ TagOfLast \in DOMAIN checkpoints
  /\ chatGitLog # <<>>
  /\ ~HasEntry(chatGitLog, TagOfLast)

\* the names that the list or the completion of the step returns
NamesReturned ==
  IF last'.op = "list" THEN Names(last'.result.chats) ELSE last'.result.names

\* the decoded tags of the entries of the ledger, in the order f
NamesInOrder(f) == [i \in 1..Len(chatGitLog) |-> DetailOf(chatGitLog[f[i]]).name]

\* the ledger is read and the modification time of at least one of its entries
\* cannot be looked up
LookupFails(Enumerate(_)) ==
  /\ ledgerFile = "ok"
  /\ chatGitLog # <<>>
  /\ \/ Enumerate("stat")
     \/ /\ Enumerate("none")
        /\ \E i \in 1..Len(chatGitLog) : chatGitLog[i].tag \notin DOMAIN checkpoints

(* C39 as stated: when every ledger entry has a checkpoint file the result   *)
(* of List and of Completion has exactly one element per ledger entry, and   *)
(* when the lookup of the modification time fails for at least one entry the *)
(* whole result is empty.                                                    *)
C39_OnePerEntryOrNone ==
  [][/\ (Ran("list") /\ EnumerationSucceeds(ListWith))
          => \E f \in Orders : NamesReturned = NamesInOrder(f)
     /\ (Ran("completion") /\ EnumerationSucceeds(CompletionWith))
          => \E f \in Orders : NamesReturned = NamesInOrder(f)
     /\ (Ran("list") /\ LookupFails(ListWith)) => NamesReturned = <<>>
     /\ (Ran("completion") /\ LookupFails(CompletionWith))
          => NamesReturned = <<>>]_vars

(* C39, amended: when every ledger entry has a checkpoint file the result of *)
(* List has exactly one element per ledger entry and the result of           *)
(* Completion one per entry whose decoded tag starts with the partial        *)
(* argument; when the lookup of the modification time fails for at least one *)
(* entry the whole result is empty, the entries whose lookup succeeded       *)
(* included.                                                                 *)
C39_OnePerMatchingEntryOrNone ==
  [][/\ (Ran("list") /\ EnumerationSucceeds(ListWith))
          => \E f \in Orders : NamesReturned = NamesInOrder(f)
     /\ (Ran("completion") /\ EnumerationSucceeds(CompletionWith))
          => \E f \in Orders :
               NamesReturned = SelectSeq(NamesInOrder(f),
                                         LAMBDA name : IsPrefix(last'.args, name))
     /\ (Ran("list") /\ LookupFails(ListWith)) => NamesReturned = <<>>
     /\ (Ran("completion") /\ LookupFails(CompletionWith))
          => NamesReturned = <<>>]_vars

\* the list is empty while one of the two entries of the ledger has its record
C39_Witness ==
  /\ last.op = "list"
  /\ last.result.type = "chat_list"
  /\ last.result.chats = <<>>
  /\ ledgerFile = "ok"
  /\ Len(chatGitLog) = 2
  /\ chatGitLog[1].tag \in DOMAIN checkpoints
  /\ chatGitLog[2].tag \notin DOMAIN checkpoints

\* the fork-git of the step, run again with a chosen condition of its calls
ForkWith(fault) ==
  ForkGit(last'.args, last'.overwriteConfirmed, last'.history, last'.authType, fault)

\* the record of the tag holds the hash next to the history
RecordHolds(record, h, commitId) ==
  /\ record.history = h
  /\ "commitId" \in DOMAIN record
  /\ record.commitId = commitId

(* C40: fork-git with a non-blank tag that has no checkpoint yet and a       *)
(* history longer than the threshold writes, under the tag, a checkpoint     *)
(* record that holds the hash of HEAD next to the history, and returns the   *)
(* info result that names the tag and that hash.                             *)
C40_ForkRecordsCommit ==
  [][(/\ Ran("fork-git")
      /\ TagOfNext # <<>>
      /\ TagOfNext \notin DOMAIN checkpoints
      /\ Len(last'.history) > INITIAL_HISTORY_LENGTH
      /\ ForkWith("none"))
     => /\ TagOfNext \in DOMAIN checkpoints'
        /\ RecordHolds(checkpoints'[TagOfNext], last'.history, head)
        /\ last'.result = Message("info", [msg |-> "ForkSaved",
                                            tag |-> decodeTagName(TagOfNext),
                                            commitId |-> head])]_vars

====
